---- MODULE Spec2Model ----
(***************************************************************************)
(* A model of the configuration-to-execution pipeline of swarms-js:        *)
(* create_agents_from_yaml (AgentConfig, SwarmConfig, loadYamlSafely,      *)
(* createAgentWithRetry, createAgentsFromYaml).                            *)
(*                                                                         *)
(* One behaviour is one call of createAgentsFromYaml.  The call is cut at  *)
(* the places where control leaves the function (the loader, the LiteLLM   *)
(* constructor, one attempt of the retried function, its catch block, the  *)
(* retry library's hook and wait, the swarm block, the return switch).     *)
(* The Agent, LiteLLM and SwarmRouter classes and the retry library are    *)
(* imported, not part of the file: their constructors are environment      *)
(* steps that either return or throw.  The identifiers ConnectionError and *)
(* TimeoutError named on the retry line are taken to be bound to the two   *)
(* transient error classes.                                                *)
(***************************************************************************)
EXTENDS Integers, Sequences, FiniteSets, TLC

\* The largest number of agent nodes in a document.
MaxAgents == 2

----------------------------------------------------------------------------
(* JavaScript values, as far as the pipeline inspects them.                *)

Undefined == [t |-> "undefined", s |-> "", n |-> 0]

Null == [t |-> "null", s |-> "", n |-> 0]

Str(x) == [t |-> "string", s |-> x, n |-> 0]

Num(k) == [t |-> "number", s |-> "", n |-> k]

Bool(b) == [t |-> "boolean", s |-> "", n |-> IF b THEN 1 ELSE 0]

\* ToBoolean: undefined, null, false, 0 and "" are falsy.
Truthy(v) ==
    CASE v.t = "undefined" -> FALSE
      [] v.t = "null" -> FALSE
      [] v.t = "boolean" -> v.n = 1
      [] v.t = "number" -> v.n # 0
      [] v.t = "string" -> Len(v.s) > 0
      [] OTHER -> TRUE

\* a || b
JsOr(a, b) == IF Truthy(a) THEN a ELSE b

IsWhite(c) == c \in {" ", "\t", "\n"}

RECURSIVE TrimStart(_)
TrimStart(s) ==
    IF Len(s) > 0 /\ IsWhite(SubSeq(s, 1, 1))
    THEN TrimStart(SubSeq(s, 2, Len(s)))
    ELSE s

RECURSIVE TrimEnd(_)
TrimEnd(s) ==
    IF Len(s) > 0 /\ IsWhite(SubSeq(s, Len(s), Len(s)))
    THEN TrimEnd(SubSeq(s, 1, Len(s) - 1))
    ELSE s

\* String.prototype.trim
trim(s) == TrimEnd(TrimStart(s))

\* The outcome of an expression that may throw.
Ok(v) == [ok |-> TRUE, value |-> v, error |-> [class |-> "", message |-> ""]]

Throw(class, message) ==
    [ok |-> FALSE, value |-> Null, error |-> [class |-> class, message |-> message]]

NoError == [class |-> "", message |-> ""]

----------------------------------------------------------------------------
(* class AgentConfig                                                       *)

AgentConfigFields(config) ==
    [agentName |-> config.agent_name,
     systemPrompt |-> config.system_prompt,
     modelName |-> JsOr(config.model_name, Null),
     maxLoops |-> JsOr(config.max_loops, Num(1)),
     autosave |-> JsOr(config.autosave, Bool(TRUE)),
     dashboard |-> JsOr(config.dashboard, Bool(FALSE)),
     verbose |-> JsOr(config.verbose, Bool(FALSE)),
     dynamicTemperatureEnabled |-> JsOr(config.dynamic_temperature_enabled, Bool(FALSE)),
     savedStatePath |-> JsOr(config.saved_state_path, Null),
     userName |-> JsOr(config.user_name, Str("default_user")),
     retryAttempts |-> JsOr(config.retry_attempts, Num(3)),
     contextLength |-> JsOr(config.context_length, Num(100000)),
     returnStepMeta |-> JsOr(config.return_step_meta, Bool(FALSE)),
     outputType |-> JsOr(config.output_type, Str("str")),
     autoGeneratePrompt |-> JsOr(config.auto_generate_prompt, Bool(FALSE)),
     artifactsOn |-> JsOr(config.artifacts_on, Bool(FALSE)),
     artifactsFileExtension |-> JsOr(config.artifacts_file_extension, Str(".md")),
     artifactsOutputPath |-> JsOr(config.artifacts_output_path, Str(""))]

\* The check without the trim: a blank prompt passes.
SystemPromptRejectedUntrimmed(p) ==
    \/ ~Truthy(p)
    \/ p.t # "string"
    \/ Len(p.s) = 0

SystemPromptRejected(p) ==
    \/ ~Truthy(p)
    \/ p.t # "string"
    \/ Len(trim(p.s)) = 0

AgentConfig(config) ==
    LET this == AgentConfigFields(config)
    IN  IF SystemPromptRejected(this.systemPrompt)
        THEN Throw("Error", "System prompt must be a non-empty string")
        ELSE Ok(this)

----------------------------------------------------------------------------
(* class SwarmConfig                                                       *)

validTypes ==
    {"SequentialWorkflow", "ConcurrentWorkflow", "AgentRearrange", "MixtureOfAgents", "auto"}

\* Set.prototype.has on a set of strings: only a string with the same text.
SetHas(set, v) == v.t = "string" /\ v.s \in set

SwarmConfigFields(config) ==
    [name |-> config.name,
     description |-> config.description,
     maxLoops |-> JsOr(config.max_loops, Num(1)),
     swarmType |-> config.swarm_type,
     task |-> JsOr(config.task, Null),
     flow |-> JsOr(config.flow, Null),
     autosave |-> JsOr(config.autosave, Bool(TRUE)),
     returnJson |-> JsOr(config.return_json, Bool(FALSE)),
     rules |-> JsOr(config.rules, Str(""))]

\* The constructor without the membership test.
SwarmConfigUnchecked(config) == Ok(SwarmConfigFields(config))

\* The membership test against the short names of the strategies.
SwarmConfigShortNames(config) ==
    LET this == SwarmConfigFields(config)
    IN  IF ~SetHas({"Sequential", "Concurrent", "Rearrange", "MixtureOfAgents", "Auto"},
                   this.swarmType)
        THEN Throw("Error", "Swarm type must be one of: Sequential, Concurrent, Rearrange, MixtureOfAgents, Auto")
        ELSE Ok(this)

SwarmConfig(config) ==
    LET this == SwarmConfigFields(config)
    IN  IF ~SetHas(validTypes, this.swarmType)
        THEN Throw("Error", "Swarm type must be one of: SequentialWorkflow, ConcurrentWorkflow, AgentRearrange, MixtureOfAgents, auto")
        ELSE Ok(this)

----------------------------------------------------------------------------
(* The parsed document.  yaml.parse is imported: the tree it returns for   *)
(* the text it is given is an input of the call, and shape "malformed"     *)
(* stands for a text it rejects with a syntax error.                       *)

\* A raw agent node: the keys AgentConfig reads; an absent key is undefined.
RawAgent(name, prompt, model, retries) ==
    [agent_name |-> name,
     system_prompt |-> prompt,
     model_name |-> model,
     max_loops |-> Undefined,
     autosave |-> Undefined,
     dashboard |-> Undefined,
     verbose |-> Undefined,
     dynamic_temperature_enabled |-> Undefined,
     saved_state_path |-> Undefined,
     user_name |-> Undefined,
     retry_attempts |-> retries,
     context_length |-> Undefined,
     return_step_meta |-> Undefined,
     output_type |-> Undefined,
     auto_generate_prompt |-> Undefined,
     artifacts_on |-> Undefined,
     artifacts_file_extension |-> Undefined,
     artifacts_output_path |-> Undefined]

\* A raw swarm_architecture node; present = FALSE is a document without the key.
RawSwarm(present, type, task) ==
    [present |-> present,
     name |-> Undefined,
     description |-> Undefined,
     max_loops |-> Undefined,
     swarm_type |-> type,
     task |-> task,
     flow |-> Undefined,
     autosave |-> Undefined,
     return_json |-> Undefined,
     rules |-> Undefined]

NoSwarm == RawSwarm(FALSE, Undefined, Undefined)

\* shape: "malformed" | "null" | "scalar" | "sequence" | "map";
\* agentsKind: "missing" | "null" | "scalar" | "map" | "array" (the value under
\* the key agents).
Tree(shape, agentsKind, agents, swarm) ==
    [shape |-> shape, agentsKind |-> agentsKind, agents |-> agents,
     swarm_architecture |-> swarm]

NoConfig == Tree("null", "missing", <<>>, NoSwarm)

----------------------------------------------------------------------------
(* function loadYamlSafely                                                 *)

\* yaml.parse(text), where tree is what the text denotes.
YamlParse(tree) ==
    IF tree.shape = "malformed"
    THEN Throw("YAMLParseError", "syntax error")
    ELSE Ok(tree)

\* A variant that lets an empty sequence through.
AgentsRejectedUnlessArray(configDict) ==
    \/ configDict.shape # "map"
    \/ configDict.agentsKind # "array"

\* !configDict.agents || !Array.isArray(configDict.agents) || length < 1
AgentsRejected(configDict) ==
    \/ configDict.shape # "map"
    \/ configDict.agentsKind # "array"
    \/ Len(configDict.agents) < 1

\* The body of the try block, lines 76-93.
LoadBody(yamlFile, yamlString, exists, tree) ==
    LET parsed ==
            IF Truthy(yamlString) THEN YamlParse(tree)
            ELSE IF Truthy(yamlFile)
                 THEN IF ~exists
                      THEN Throw("Error", "YAML file " \o yamlFile.s \o " not found.")
                      ELSE YamlParse(tree)
                 ELSE Throw("Error", "Either yamlFile or yamlString must be provided")
    IN  IF ~parsed.ok THEN parsed
        ELSE IF parsed.value.shape = "null"
             THEN Throw("TypeError", "Cannot read properties of null (reading 'agents')")
             ELSE IF AgentsRejected(parsed.value)
                  THEN Throw("Error", "Invalid YAML: Must contain at least one agent configuration.")
                  ELSE parsed

loadYamlSafely(yamlFile, yamlString, exists, tree) ==
    LET r == LoadBody(yamlFile, yamlString, exists, tree)
    IN  IF r.ok THEN r
        ELSE Throw("Error", "Error validating configuration: " \o r.error.message)

----------------------------------------------------------------------------
(* The imported classes, as the pipeline uses them.                        *)

\* new LiteLLM({ modelName: agentConfig.model_name || "gpt-4o" }); id is the
\* order of creation, which tells one handle from another.
LiteLLM(agentConfig, id) ==
    [modelName |-> JsOr(agentConfig.model_name, Str("gpt-4o")), id |-> id]

\* new Agent({...}), lines 106-125: the options the constructor is given.
Agent(validatedConfig, model) ==
    [agentName |-> validatedConfig.agentName,
     systemPrompt |-> validatedConfig.systemPrompt,
     llm |-> model,
     maxLoops |-> validatedConfig.maxLoops,
     autosave |-> validatedConfig.autosave,
     dashboard |-> validatedConfig.dashboard,
     verbose |-> validatedConfig.verbose,
     dynamicTemperatureEnabled |-> validatedConfig.dynamicTemperatureEnabled,
     savedStatePath |-> validatedConfig.savedStatePath,
     userName |-> validatedConfig.userName,
     retryAttempts |-> validatedConfig.retryAttempts,
     contextLength |-> validatedConfig.contextLength,
     returnStepMeta |-> validatedConfig.returnStepMeta,
     outputType |-> validatedConfig.outputType,
     autoGeneratePrompt |-> validatedConfig.autoGeneratePrompt,
     artifactsOn |-> validatedConfig.artifactsOn,
     artifactsFileExtension |-> validatedConfig.artifactsFileExtension,
     artifactsOutputPath |-> validatedConfig.artifactsOutputPath]

\* The constructor given the agents last to first.
SwarmRouterReversed(swarmConfig, agentList) ==
    [present |-> TRUE,
     name |-> swarmConfig.name,
     description |-> swarmConfig.description,
     maxLoops |-> swarmConfig.maxLoops,
     agents |-> [k \in 1..Len(agentList) |-> agentList[Len(agentList) + 1 - k]],
     swarmType |-> swarmConfig.swarmType,
     task |-> swarmConfig.task,
     flow |-> swarmConfig.flow,
     autosave |-> swarmConfig.autosave,
     returnJson |-> swarmConfig.returnJson,
     rules |-> swarmConfig.rules]

\* The constructor given no agents.
SwarmRouterUnbound(swarmConfig, agentList) ==
    [present |-> TRUE,
     name |-> swarmConfig.name,
     description |-> swarmConfig.description,
     maxLoops |-> swarmConfig.maxLoops,
     agents |-> <<>>,
     swarmType |-> swarmConfig.swarmType,
     task |-> swarmConfig.task,
     flow |-> swarmConfig.flow,
     autosave |-> swarmConfig.autosave,
     returnJson |-> swarmConfig.returnJson,
     rules |-> swarmConfig.rules]

\* new SwarmRouter({...}), lines 162-173: the options the constructor is given.
SwarmRouter(swarmConfig, agentList) ==
    [present |-> TRUE,
     name |-> swarmConfig.name,
     description |-> swarmConfig.description,
     maxLoops |-> swarmConfig.maxLoops,
     agents |-> agentList,
     swarmType |-> swarmConfig.swarmType,
     task |-> swarmConfig.task,
     flow |-> swarmConfig.flow,
     autosave |-> swarmConfig.autosave,
     returnJson |-> swarmConfig.returnJson,
     rules |-> swarmConfig.rules]

\* let swarmRouter = null
NoRouter ==
    [present |-> FALSE, name |-> Undefined, description |-> Undefined,
     maxLoops |-> Undefined, agents |-> <<>>, swarmType |-> Undefined,
     task |-> Undefined, flow |-> Undefined, autosave |-> Undefined,
     returnJson |-> Undefined, rules |-> Undefined]

\* swarmRouter.run(task).  The router is not part of the file; this is the
\* dispatch table of the specification: one output per agent in input order
\* for the concurrent strategy, the last agent's output for the sequential
\* one, and one synthesized output otherwise.
RouterRun(router, task) ==
    LET out(k) == [agent |-> k, task |-> task]
        n == Len(router.agents)
    IN  CASE router.swarmType.s = "ConcurrentWorkflow" -> [k \in 1..n |-> out(k)]
          [] router.swarmType.s = "SequentialWorkflow" -> <<out(n)>>
          [] OTHER -> <<out(0)>>

----------------------------------------------------------------------------
(* const createAgentWithRetry = retry(fn, {stop, wait, retry, beforeRetry}) *)

\* stop: stopAfterAttempt(3)
StopAfterAttempt == 3

\* wait: waitExponential({ multiplier: 1, min: 4, max: 10 })
WaitMultiplier == 1

WaitMin == 4

WaitMax == 10

\* retryIfExceptionType([Error]): every error is retried.
retryTypesAnyError == {"ConnectionError", "TimeoutError", "TypeError", "Error"}

\* retry: retryIfExceptionType([ConnectionError, TimeoutError])
retryTypes == {"ConnectionError", "TimeoutError"}

RECURSIVE Pow2(_)
Pow2(k) == IF k <= 0 THEN 1 ELSE 2 * Pow2(k - 1)

Clamp(x, lo, hi) == IF x < lo THEN lo ELSE IF x > hi THEN hi ELSE x

\* The wait after the attempt numbered attemptNumber (counted from 1).
waitExponential(attemptNumber) ==
    Clamp(WaitMultiplier * Pow2(attemptNumber - 1), WaitMin, WaitMax)

\* The decision with the attempt bound off by one.
ShouldRetryOnceMore(error, attemptNumber) ==
    /\ error.class \in {"ConnectionError", "TimeoutError"}
    /\ attemptNumber <= 3

\* The library's decision after a failed attempt: try again, or give up.
ShouldRetry(error, attemptNumber) ==
    /\ error.class \in retryTypes
    /\ attemptNumber < StopAfterAttempt

\* What the wrapper throws when it gives up on error: an error the retry
\* predicate rejects is rethrown as it is; after the last attempt the library
\* either rethrows the last error or wraps it.
GiveUpErrors(error) ==
    IF error.class \in retryTypes
    THEN {error, [class |-> "RetryError", message |-> error.message]}
    ELSE {error}

----------------------------------------------------------------------------
(* async function createAgentsFromYaml                                     *)

validReturnTypes == {"auto", "swarm", "agents", "both", "tasks", "run_swarm"}

VARIABLES
    yamlFile,       \* argument: a path, "agents.yaml" by default, or null
    yamlString,     \* argument: the YAML text, or null
    returnType,     \* argument
    fileExists,     \* fs.existsSync(yamlFile)
    tree,           \* what the text that is read denotes
    pc,             \* the place the call has reached
    config,         \* const config
    idx,            \* position of the for loop in config.agents, from 1
    modelInstance,  \* const modelInstance of the current iteration
    attempt,        \* attempts made at the current agent
    exc,            \* the error an attempt threw, while it is being handled
    waited,         \* the waits between the attempts at the current agent
    agents,         \* const agents = []
    backends,       \* the LiteLLM handles created, in order
    swarmRouter,    \* let swarmRouter = null
    log,            \* what the logger was given, in order
    err,            \* the error the call threw
    result,         \* the value the call returned
    entry,          \* the function that is called
    given,          \* yamlFile and yamlString as the caller wrote them
    model,          \* argument: the model, null by default
    node,           \* the raw node a constructor is called with on its own
    constructed,    \* what that constructor returned or threw
    running,        \* router: the agents whose run is in flight
    slots,          \* router: the output of each agent, by its position
    completion,     \* router: the agents in the order their runs ended
    userData,       \* OnboardingProcess: this.userData
    files,          \* OnboardingProcess: the files at autoSavePath and cacheSavePath
    askKey,         \* askInput: argument key
    response,       \* askInput: const response
    prompts,        \* askInput: the calls of promptUser so far
    saves,          \* the calls of saveData so far
    retryAttempts,  \* saveData: argument, 3 by default
    backoffTime,    \* saveData: let backoffTime
    telemetry,      \* what logAgentData was given, in order
    artifact,       \* Artifact: this.contents, this.editCount, this.versions
    disk,           \* Artifact: the file at this.filePath
    calls,          \* Artifact: the calls made so far, in order
    tools,          \* OpenAIAssistant: this.tools, by function name
    availableFunctions, \* OpenAIAssistant: the names that are registered
    remote,         \* the run as the API holds it
    run,            \* _waitForRun, _handleToolCalls: run
    toolCalls,      \* _handleToolCalls: const toolCalls
    toolOutputs,    \* _handleToolCalls: const toolOutputs
    submissions     \* the requests submitToolOutputs has sent

vars ==
    <<yamlFile, yamlString, returnType, fileExists, tree, pc, config, idx,
      modelInstance, attempt, exc, waited, agents, backends, swarmRouter,
      log, err, result, entry, given, model, node, constructed, running,
      slots, completion, userData, files, askKey, response, prompts, saves,
      retryAttempts, backoffTime, telemetry, artifact, disk, calls, tools,
      availableFunctions, remote, run, toolCalls, toolOutputs,
      submissions>>

\* The variables of the router's dispatch.
dispatch == <<running, slots, completion>>

\* The variables of OnboardingProcess.
onboarding ==
    <<userData, files, askKey, response, prompts, saves, retryAttempts,
      backoffTime, telemetry>>

\* The variables of Artifact.
artifactVars == <<artifact, disk, calls>>

\* The variables of OpenAIAssistant.
assistant ==
    <<tools, availableFunctions, remote, run, toolCalls, toolOutputs,
      submissions>>

\* What no step of createAgentsFromYaml assigns: its arguments, the file
\* system, and the variables of the calls of the constructors on their own.
inputs ==
    <<yamlFile, yamlString, returnType, fileExists, tree, entry, given, model,
      node, constructed, dispatch, onboarding, artifactVars, assistant>>

\* No run of the router is under way.
DispatchIdle ==
    /\ running = {}
    /\ slots = <<>>
    /\ completion = <<>>

\* No OnboardingProcess exists.
OnboardingIdle ==
    /\ userData = <<>>
    /\ files = <<>>
    /\ askKey = ""
    /\ response = ""
    /\ prompts = 0
    /\ saves = 0
    /\ retryAttempts = 0
    /\ backoffTime = 0
    /\ telemetry = <<>>

\* No Artifact and no OpenAIAssistant exists.
LibraryIdle ==
    /\ artifact = [contents |-> "", editCount |-> 0, versions |-> <<>>]
    /\ disk = [exists |-> FALSE, content |-> ""]
    /\ calls = <<>>
    /\ tools = <<>>
    /\ availableFunctions = {}
    /\ remote = [status |-> "none", toolCalls |-> <<>>]
    /\ run = [status |-> "none", toolCalls |-> <<>>]
    /\ toolCalls = <<>>
    /\ toolOutputs = <<>>
    /\ submissions = 0

\* A default of a destructured parameter: it applies to undefined only.
DefaultParam(arg, default) == IF arg = Undefined THEN default ELSE arg

NoNode == [key |-> "none"]

NoValidation == [ok |-> FALSE, value |-> NoNode, error |-> NoError]

Log(level, site, text) == [level |-> level, site |-> site, text |-> text]

NoResult == [kind |-> "none", agents |-> <<>>, router |-> NoRouter, output |-> <<>>]

Result(kind, agentList, router, output) ==
    [kind |-> kind, agents |-> agentList, router |-> router, output |-> output]

NoModel == [modelName |-> Undefined, id |-> 0]

\* A variant that returns the list whatever its length.
OneOrAllList(agentList) == Result("agents", agentList, NoRouter, <<>>)

\* agents.length === 1 ? agents[0] : agents
OneOrAll(agentList) ==
    IF Len(agentList) = 1
    THEN Result("agent", agentList, NoRouter, <<>>)
    ELSE Result("agents", agentList, NoRouter, <<>>)

\* catch (error) { logger.error(...); throw error; } of createAgentsFromYaml,
\* entered with the log as logBefore.
Rethrow(error, logBefore) ==
    /\ log' = Append(logBefore, Log("error", "createAgentsFromYaml", error.message))
    /\ err' = error
    /\ pc' = "failed"

\* ${value} in a template literal.
TemplateText(v) ==
    CASE v.t = "string" -> v.s
      [] v.t = "undefined" -> "undefined"
      [] v.t = "null" -> "null"
      [] v.t = "boolean" -> (IF v.n = 1 THEN "true" ELSE "false")
      [] OTHER -> ToString(v.n)

\* The text of agentConfig.agent_name || "unknown" in a message.
NameText(agentConfig) == JsOr(agentConfig.agent_name, Str("unknown")).s

----------------------------------------------------------------------------
(* The documents and arguments of the calls that are checked.              *)

\* System prompts AgentConfig is given: absent, null, empty, blank, not a
\* string, and a usable one.
BadPromptValues == {Undefined, Null, Str(""), Str(" "), Str(" \t\n"), Num(7)}

GoodPromptValues == {Str("do X")}

RetryValues == {Undefined, Num(5)}

SwarmTypeValues ==
    {Undefined} \cup
    {Str(x) : x \in validTypes \cup
                    {"Sequential", "Concurrent", "Rearrange", "Auto", "Bogus"}}

ReturnTypeValues == {Str(x) : x \in validReturnTypes \cup {"bogus"}}

\* The k-th agent of a document is named by the k-th letter.
NameOf(k) == Str(SubSeq("ABCDEFGH", k, k))

\* The nodes at position k: retry_attempts varies where the node is usable.
NodeValues(k) ==
    {RawAgent(NameOf(k), p, Undefined, Undefined) : p \in BadPromptValues}
    \cup {RawAgent(NameOf(k), p, Undefined, r) : p \in GoodPromptValues, r \in RetryValues}

AgentLists ==
    UNION {{a \in [1..n -> UNION {NodeValues(k) : k \in 1..MaxAgents}] :
               \A k \in 1..n : a[k] \in NodeValues(k)}
           : n \in 0..MaxAgents}

SwarmValues == {NoSwarm} \cup {RawSwarm(TRUE, t, Str("T")) : t \in SwarmTypeValues}

Trees ==
    {Tree("map", "array", a, s) : a \in AgentLists, s \in SwarmValues}
    \cup {Tree("malformed", "missing", <<>>, NoSwarm),
          Tree("null", "missing", <<>>, NoSwarm),
          Tree("scalar", "missing", <<>>, NoSwarm),
          Tree("map", "missing", <<>>, NoSwarm),
          Tree("map", "scalar", <<>>, NoSwarm)}

\* The documents the file on disk may hold: those of at most one agent.
FileTrees == {t \in Trees : Len(t.agents) <= 1}

\* yamlFile, yamlString, fileExists: the text given, the default file, a
\* missing file, and no source at all.
SourceValues ==
    {<<Str("agents.yaml"), Str("text"), FALSE>>,
     <<Str("agents.yaml"), Null, TRUE>>,
     <<Str("agents.yaml"), Null, FALSE>>,
     <<Null, Null, FALSE>>}

Init ==
    /\ \E source \in SourceValues :
          /\ yamlFile = source[1]
          /\ yamlString = source[2]
          /\ fileExists = source[3]
    /\ returnType \in ReturnTypeValues
    /\ tree \in IF Truthy(yamlString) THEN Trees
               ELSE IF Truthy(yamlFile) /\ fileExists THEN FileTrees
               ELSE {NoConfig}
    /\ pc = "call"
    /\ config = NoConfig
    /\ idx = 0
    /\ modelInstance = NoModel
    /\ attempt = 0
    /\ exc = NoError
    /\ waited = <<>>
    /\ agents = <<>>
    /\ backends = <<>>
    /\ swarmRouter = NoRouter
    /\ log = <<>>
    /\ err = NoError
    /\ result = NoResult
    /\ entry = "createAgentsFromYaml"
    /\ given = [yamlFile |-> yamlFile, yamlString |-> yamlString]
    /\ model = Null
    /\ node = NoNode
    /\ constructed = NoValidation
    /\ DispatchIdle
    /\ LibraryIdle
    /\ OnboardingIdle

\* const config = loadYamlSafely({ yamlFile, yamlString })
Load ==
    /\ pc = "call"
    /\ LET r == loadYamlSafely(yamlFile, yamlString, fileExists, tree)
       IN  IF r.ok
           THEN /\ config' = r.value
                /\ idx' = 1
                /\ pc' = "loop"
                /\ UNCHANGED <<log, err>>
           ELSE /\ Rethrow(r.error, log)
                /\ UNCHANGED <<config, idx>>
    /\ UNCHANGED <<inputs, modelInstance, attempt, exc, waited, agents, backends,
                   swarmRouter, result>>

\* The head of one iteration, lines 151-153: the log line and new LiteLLM,
\* which returns a handle or throws.
CreateModel ==
    /\ pc = "loop"
    /\ idx <= Len(config.agents)
    /\ LET agentConfig == config.agents[idx]
           log1 == Append(log, Log("info", "creating", TemplateText(agentConfig.agent_name)))
       IN  \E built \in BOOLEAN :
              IF built
              THEN /\ modelInstance' = LiteLLM(agentConfig, Len(backends) + 1)
                   /\ backends' = Append(backends, modelInstance')
                   /\ attempt' = 0
                   /\ waited' = <<>>
                   /\ log' = log1
                   /\ pc' = "attempt"
                   /\ UNCHANGED err
              ELSE /\ Rethrow([class |-> "Error", message |-> "LiteLLM"], log1)
                   /\ UNCHANGED <<modelInstance, backends, attempt, waited>>
    /\ UNCHANGED <<inputs, config, idx, exc, agents, swarmRouter, result>>

\* The for loop has run through config.agents.
LoopExit ==
    /\ pc = "loop"
    /\ idx > Len(config.agents)
    /\ pc' = "swarm"
    /\ UNCHANGED <<inputs, config, idx, modelInstance, attempt, exc, waited,
                   agents, backends, swarmRouter, log, err, result>>

AgentOutcomes == {"ok", "ConnectionError", "TimeoutError", "TypeError"}

\* One attempt that returns, lines 105-125, and then lines 156-157.
AttemptReturns ==
    /\ pc = "attempt"
    /\ LET agentConfig == config.agents[idx]
           validated == AgentConfig(agentConfig)
       IN  /\ validated.ok
           /\ attempt' = attempt + 1
           /\ agents' = Append(agents, Agent(validated.value, modelInstance))
           /\ log' = Append(log, Log("info", "created", TemplateText(agentConfig.agent_name)))
           /\ idx' = idx + 1
           /\ pc' = "loop"
    /\ UNCHANGED <<inputs, config, modelInstance, exc, waited, backends,
                   swarmRouter, err, result>>

\* An attempt that throws while the loop, not waiting for it, goes on to the
\* next node.
AttemptThrowsUnawaited ==
    /\ pc = "attempt"
    /\ LET validated == AgentConfig(config.agents[idx])
       IN  IF ~validated.ok
           THEN exc' = validated.error
           ELSE \E class \in AgentOutcomes \ {"ok"} :
                   exc' = [class |-> class, message |-> "new Agent"]
    /\ attempt' = attempt + 1
    /\ idx' = idx + 1
    /\ pc' = "loop"
    /\ UNCHANGED <<inputs, config, modelInstance, waited, agents, backends,
                   swarmRouter, log, err, result>>

\* One attempt that throws: new AgentConfig rejects the node, or new Agent
\* throws a transient or another error.
AttemptThrows ==
    /\ pc = "attempt"
    /\ LET validated == AgentConfig(config.agents[idx])
       IN  IF ~validated.ok
           THEN exc' = validated.error
           ELSE \E class \in AgentOutcomes \ {"ok"} :
                   exc' = [class |-> class, message |-> "new Agent"]
    /\ attempt' = attempt + 1
    /\ pc' = "catch"
    /\ UNCHANGED <<inputs, config, idx, modelInstance, waited, agents, backends,
                   swarmRouter, log, err, result>>

\* The catch block that gives a failed agent up and goes on with the next.
AttemptCatchSkip ==
    /\ pc = "catch"
    /\ log' = Append(log, Log("error", "createAgentWithRetry",
                              NameText(config.agents[idx])))
    /\ IF ShouldRetry(exc, attempt)
       THEN pc' = "backoff" /\ UNCHANGED idx
       ELSE pc' = "loop" /\ idx' = idx + 1
    /\ UNCHANGED <<inputs, config, modelInstance, attempt, exc, waited, agents,
                   backends, swarmRouter, err, result>>

\* The catch block that rethrows without the logger.error line.
AttemptCatchSilent ==
    /\ pc = "catch"
    /\ IF ShouldRetry(exc, attempt)
       THEN /\ pc' = "backoff"
            /\ UNCHANGED <<log, err>>
       ELSE \E thrown \in GiveUpErrors(exc) : Rethrow(thrown, log)
    /\ UNCHANGED <<inputs, config, idx, modelInstance, attempt, exc, waited,
                   agents, backends, swarmRouter, result>>

\* catch (error) { logger.error(...); throw error; } of the retried function,
\* and the library's decision on the error thrown.
AttemptCatch ==
    /\ pc = "catch"
    /\ LET log1 == Append(log, Log("error", "createAgentWithRetry",
                                   NameText(config.agents[idx])))
       IN  IF ShouldRetry(exc, attempt)
           THEN /\ log' = log1
                /\ pc' = "backoff"
                /\ UNCHANGED err
           ELSE \E thrown \in GiveUpErrors(exc) : Rethrow(thrown, log1)
    /\ UNCHANGED <<inputs, config, idx, modelInstance, attempt, exc, waited,
                   agents, backends, swarmRouter, result>>

\* beforeRetry, then the wait before the next attempt.
BeforeRetry ==
    /\ pc = "backoff"
    /\ log' = Append(log, Log("info", "retrying", exc.message))
    /\ waited' = Append(waited, waitExponential(attempt))
    /\ exc' = NoError
    /\ pc' = "attempt"
    /\ UNCHANGED <<inputs, config, idx, modelInstance, attempt, agents, backends,
                   swarmRouter, err, result>>

\* if (config.swarm_architecture) {...}, lines 160-175; new SwarmRouter returns
\* a router or throws.
BuildSwarm ==
    /\ pc = "swarm"
    /\ config.swarm_architecture.present
    /\ LET swarmConfig == SwarmConfig(config.swarm_architecture)
       IN  IF ~swarmConfig.ok
           THEN /\ Rethrow(swarmConfig.error, log)
                /\ UNCHANGED swarmRouter
           ELSE \E built \in BOOLEAN :
                   IF built
                   THEN /\ swarmRouter' = SwarmRouter(swarmConfig.value, agents)
                        /\ log' = Append(log, Log("info", "router", ""))
                        /\ pc' = "return"
                        /\ UNCHANGED err
                   ELSE /\ Rethrow([class |-> "Error", message |-> "SwarmRouter"], log)
                        /\ UNCHANGED swarmRouter
    /\ UNCHANGED <<inputs, config, idx, modelInstance, attempt, exc, waited,
                   agents, backends, result>>

\* The document declares no swarm.
SkipSwarm ==
    /\ pc = "swarm"
    /\ ~config.swarm_architecture.present
    /\ pc' = "return"
    /\ UNCHANGED <<inputs, config, idx, modelInstance, attempt, exc, waited,
                   agents, backends, swarmRouter, log, err, result>>

\* new Error(`Invalid return_type. Must be one of: ${[...].join(", ")}`)
InvalidReturnTypeError ==
    [class |-> "Error",
     message |-> "Invalid return_type. Must be one of: auto, swarm, agents, both, tasks, run_swarm"]

\* new Error("Cannot run swarm: SwarmRouter not created.")
SwarmNotCreatedError ==
    [class |-> "Error", message |-> "Cannot run swarm: SwarmRouter not created."]

\* if (!validReturnTypes.has(returnType)) throw, lines 177-180.
RejectReturnType ==
    /\ pc = "return"
    /\ ~SetHas(validReturnTypes, returnType)
    /\ Rethrow(InvalidReturnTypeError, log)
    /\ UNCHANGED <<inputs, config, idx, modelInstance, attempt, exc, waited,
                   agents, backends, swarmRouter, result>>

\* A variant that hands back the agents when there is no router to run.
ReturnSwarmFallsBack ==
    /\ pc = "return"
    /\ SetHas({"run_swarm", "swarm"}, returnType)
    /\ IF ~swarmRouter.present
       THEN /\ result' = OneOrAll(agents)
            /\ pc' = "done"
            /\ UNCHANGED <<log, err>>
       ELSE \E outcome \in {"returns", "throws", "rejects"} :
               CASE outcome = "returns" ->
                      /\ result' = Result("output", <<>>, NoRouter,
                                          RouterRun(swarmRouter, config.swarm_architecture.task))
                      /\ pc' = "done"
                      /\ UNCHANGED <<log, err>>
                 [] outcome = "throws" ->
                      /\ Rethrow([class |-> "Error", message |-> "run"], log)
                      /\ UNCHANGED result
                 [] outcome = "rejects" ->
                      /\ err' = [class |-> "Error", message |-> "run"]
                      /\ pc' = "failed"
                      /\ UNCHANGED <<log, result>>
    /\ UNCHANGED <<inputs, config, idx, modelInstance, attempt, exc, waited,
                   agents, backends, swarmRouter>>

\* case "run_swarm": case "swarm":, lines 183-188.  run returns its output,
\* throws, or returns a promise that rejects; the promise is returned without
\* being awaited, so its rejection passes the catch block by.
ReturnSwarm ==
    /\ pc = "return"
    /\ SetHas({"run_swarm", "swarm"}, returnType)
    /\ IF ~swarmRouter.present
       THEN /\ Rethrow(SwarmNotCreatedError, log)
            /\ UNCHANGED result
       ELSE \E outcome \in {"returns", "throws", "rejects"} :
               CASE outcome = "returns" ->
                      /\ result' = Result("output", <<>>, NoRouter,
                                          RouterRun(swarmRouter, config.swarm_architecture.task))
                      /\ pc' = "done"
                      /\ UNCHANGED <<log, err>>
                 [] outcome = "throws" ->
                      /\ Rethrow([class |-> "Error", message |-> "run"], log)
                      /\ UNCHANGED result
                 [] outcome = "rejects" ->
                      /\ err' = [class |-> "Error", message |-> "run"]
                      /\ pc' = "failed"
                      /\ UNCHANGED <<log, result>>
    /\ UNCHANGED <<inputs, config, idx, modelInstance, attempt, exc, waited,
                   agents, backends, swarmRouter>>

\* The other cases of the switch, lines 189-196.
ReturnValue ==
    /\ pc = "return"
    /\ SetHas(validReturnTypes \ {"run_swarm", "swarm"}, returnType)
    /\ result' =
          CASE returnType.s = "agents" -> OneOrAll(agents)
            [] returnType.s = "both" -> Result("pair", agents, swarmRouter, <<>>)
            [] returnType.s = "tasks" -> Result("tasks", <<>>, NoRouter, <<>>)
            [] OTHER -> IF swarmRouter.present
                        THEN Result("router", <<>>, swarmRouter, <<>>)
                        ELSE OneOrAll(agents)
    /\ pc' = "done"
    /\ UNCHANGED <<inputs, config, idx, modelInstance, attempt, exc, waited,
                   agents, backends, swarmRouter, log, err>>

Next ==
    \/ Load
    \/ CreateModel
    \/ LoopExit
    \/ AttemptReturns
    \/ AttemptThrows
    \/ AttemptCatch
    \/ BeforeRetry
    \/ BuildSwarm
    \/ SkipSwarm
    \/ RejectReturnType
    \/ ReturnSwarm
    \/ ReturnValue

Spec == Init /\ [][Next]_vars

----------------------------------------------------------------------------
(* The loading of the document by itself: loadYamlSafely called directly   *)
(* and through createAgentsFromYaml, with the arguments the caller may     *)
(* write or leave out and with every shape of document.                    *)

FileArgValues == {Undefined, Null, Str("agents.yaml"), Str("team.yaml")}

StringArgValues == {Undefined, Null, Str(""), Str("text")}

LoadTrees ==
    {Tree("map", "array", a, NoSwarm) :
        a \in {<<>>,
               <<RawAgent(NameOf(1), Str("do X"), Undefined, Undefined)>>,
               <<RawAgent(NameOf(1), Str("do X"), Undefined, Undefined),
                 RawAgent(NameOf(2), Str("do X"), Undefined, Undefined)>>}}
    \cup {Tree("malformed", "missing", <<>>, NoSwarm),
          Tree("null", "missing", <<>>, NoSwarm),
          Tree("scalar", "missing", <<>>, NoSwarm),
          Tree("sequence", "missing", <<>>, NoSwarm),
          Tree("map", "missing", <<>>, NoSwarm),
          Tree("map", "null", <<>>, NoSwarm),
          Tree("map", "scalar", <<>>, NoSwarm),
          Tree("map", "map", <<>>, NoSwarm)}

\* The locals of a call that has not taken a step.
LocalsAtEntry ==
    /\ pc = "call"
    /\ config = NoConfig
    /\ idx = 0
    /\ modelInstance = NoModel
    /\ attempt = 0
    /\ exc = NoError
    /\ waited = <<>>
    /\ agents = <<>>
    /\ backends = <<>>
    /\ swarmRouter = NoRouter
    /\ log = <<>>
    /\ err = NoError
    /\ result = NoResult

\* The parameters are bound as the two signatures bind them, lines 74 and 144.
InitLoad ==
    /\ entry \in {"loadYamlSafely", "createAgentsFromYaml"}
    /\ given \in [yamlFile : FileArgValues, yamlString : StringArgValues]
    /\ yamlFile = DefaultParam(given.yamlFile,
                               IF entry = "createAgentsFromYaml"
                               THEN Str("agents.yaml") ELSE Null)
    /\ yamlString = DefaultParam(given.yamlString, Null)
    /\ fileExists \in (IF Truthy(yamlFile) THEN BOOLEAN ELSE {FALSE})
    /\ tree \in IF Truthy(yamlString) \/ (Truthy(yamlFile) /\ fileExists)
               THEN LoadTrees
               ELSE {NoConfig}
    /\ returnType = Str("auto")
    /\ model = Null
    /\ LocalsAtEntry
    /\ node = NoNode
    /\ constructed = NoValidation
    /\ DispatchIdle
    /\ LibraryIdle
    /\ OnboardingIdle

\* loadYamlSafely({ yamlFile, yamlString }) called by itself.
LoadDirectly ==
    /\ entry = "loadYamlSafely"
    /\ pc = "call"
    /\ LET r == loadYamlSafely(yamlFile, yamlString, fileExists, tree)
       IN  IF r.ok
           THEN /\ config' = r.value
                /\ pc' = "loaded"
                /\ UNCHANGED err
           ELSE /\ err' = r.error
                /\ pc' = "failed"
                /\ UNCHANGED config
    /\ UNCHANGED <<inputs, idx, modelInstance, attempt, exc, waited, agents,
                   backends, swarmRouter, log, result>>

\* The first statement of createAgentsFromYaml, line 149.
LoadInPipeline ==
    /\ entry = "createAgentsFromYaml"
    /\ Load

NextLoad ==
    \/ LoadDirectly
    \/ LoadInPipeline

SpecLoad == InitLoad /\ [][NextLoad]_vars

----------------------------------------------------------------------------
(* Calls of createAgentsFromYaml on documents of two usable agents whose   *)
(* names and model names vary, with and without a model argument.          *)

\* A model backend of the caller's.
CallerModel == [modelName |-> Str("caller"), id |-> 0]

ModelArgValues == {Null, CallerModel}

NameValues == {Undefined, Str(""), Str("A"), Str("B")}

ModelNameValues == {Undefined, Str("gpt-4")}

NamedAgents ==
    {<<RawAgent(n1, Str("do X"), m1, Undefined), RawAgent(n2, Str("do X"), m2, Undefined)>> :
        <<n1, m1, n2, m2>> \in
            NameValues \X ModelNameValues \X NameValues \X ModelNameValues}

NamedTrees ==
    {Tree("map", "array", a, sw) :
        a \in NamedAgents,
        sw \in {NoSwarm, RawSwarm(TRUE, Str("ConcurrentWorkflow"), Str("T"))}}

InitArgs ==
    /\ entry = "createAgentsFromYaml"
    /\ given = [yamlFile |-> Undefined, yamlString |-> Str("text")]
    /\ yamlFile = DefaultParam(given.yamlFile, Str("agents.yaml"))
    /\ yamlString = DefaultParam(given.yamlString, Null)
    /\ fileExists = FALSE
    /\ tree \in NamedTrees
    /\ returnType \in ReturnTypeValues
    /\ model \in ModelArgValues
    /\ LocalsAtEntry
    /\ node = NoNode
    /\ constructed = NoValidation
    /\ DispatchIdle
    /\ LibraryIdle
    /\ OnboardingIdle

SpecArgs == InitArgs /\ [][Next]_vars

----------------------------------------------------------------------------
(* Calls of createAgentsFromYaml with a logger whose calls may throw.  The *)
(* logger is imported; a call of it inside a try block that throws takes   *)
(* the path of any other error thrown there.                               *)

\* The error a call of the logger throws.
LoggerError == [class |-> "Error", message |-> "logger"]

LoggerTrees ==
    {Tree("map", "array",
          <<RawAgent(NameOf(1), Str("do X"), Undefined, Undefined),
            RawAgent(NameOf(2), Str("do X"), Undefined, Undefined)>>, sw) :
        sw \in {NoSwarm, RawSwarm(TRUE, Str("ConcurrentWorkflow"), Str("T"))}}

InitLogger ==
    /\ entry = "createAgentsFromYaml"
    /\ given = [yamlFile |-> Undefined, yamlString |-> Str("text")]
    /\ yamlFile = DefaultParam(given.yamlFile, Str("agents.yaml"))
    /\ yamlString = DefaultParam(given.yamlString, Null)
    /\ fileExists = FALSE
    /\ tree \in LoggerTrees
    /\ returnType \in ReturnTypeValues
    /\ model = Null
    /\ LocalsAtEntry
    /\ node = NoNode
    /\ constructed = NoValidation
    /\ DispatchIdle
    /\ LibraryIdle
    /\ OnboardingIdle

\* The catch block of createAgentsFromYaml, lines 198-201, entered with an
\* error of the logger: logger.error reports it, or throws in its turn.
LoggerErrorCaught ==
    \E reported \in BOOLEAN :
        /\ log' = IF reported
                  THEN Append(log, Log("error", "createAgentsFromYaml", LoggerError.message))
                  ELSE log
        /\ err' = LoggerError
        /\ pc' = "failed"

\* logger.info(`Creating agent: ...`) throws, line 152.
CreatingLogThrows ==
    /\ pc = "loop"
    /\ idx <= Len(config.agents)
    /\ LoggerErrorCaught
    /\ UNCHANGED <<inputs, config, idx, modelInstance, attempt, exc, waited,
                   agents, backends, swarmRouter, result>>

\* The attempt returns an agent and logger.info(`Agent ... created
\* successfully.`) throws, line 157, before agents.push.
CreatedLogThrows ==
    /\ pc = "attempt"
    /\ AgentConfig(config.agents[idx]).ok
    /\ attempt' = attempt + 1
    /\ LoggerErrorCaught
    /\ UNCHANGED <<inputs, config, idx, modelInstance, exc, waited, agents,
                   backends, swarmRouter, result>>

\* logger.error in the catch block of the retried function throws, line 127:
\* the attempt ends in the logger's error, which is not of a retried class.
AttemptLogThrows ==
    /\ pc = "catch"
    /\ ~ShouldRetry(LoggerError, attempt)
    /\ exc' = LoggerError
    /\ LoggerErrorCaught
    /\ UNCHANGED <<inputs, config, idx, modelInstance, attempt, waited, agents,
                   backends, swarmRouter, result>>

\* logger.info in beforeRetry throws, line 136.
RetryLogThrows ==
    /\ pc = "backoff"
    /\ LoggerErrorCaught
    /\ UNCHANGED <<inputs, config, idx, modelInstance, attempt, exc, waited,
                   agents, backends, swarmRouter, result>>

\* The router is built and logger.info(`SwarmRouter ... created
\* successfully.`) throws, line 174.
RouterLogThrows ==
    /\ pc = "swarm"
    /\ config.swarm_architecture.present
    /\ SwarmConfig(config.swarm_architecture).ok
    /\ swarmRouter' = SwarmRouter(SwarmConfig(config.swarm_architecture).value, agents)
    /\ LoggerErrorCaught
    /\ UNCHANGED <<inputs, config, idx, modelInstance, attempt, exc, waited,
                   agents, backends, result>>

NextLogger ==
    \/ Next
    \/ CreatingLogThrows
    \/ CreatedLogThrows
    \/ AttemptLogThrows
    \/ RetryLogThrows
    \/ RouterLogThrows

SpecLogger == InitLogger /\ [][NextLogger]_vars

----------------------------------------------------------------------------
(* swarmRouter.run(task) for the two strategies that fan out.  The router  *)
(* is not part of the file: its run is the one the specification          *)
(* describes, in which every agent is given the task, the runs end in any *)
(* order, each with an output or a failure, and are then joined.          *)

\* The largest number of agents a router is given.
DispatchAgents == 3

FanOutTypes == {"ConcurrentWorkflow", "MixtureOfAgents"}

\* The agents createAgentsFromYaml builds from n usable nodes.
BuiltAgents(n) ==
    [k \in 1..n |->
        Agent(AgentConfig(RawAgent(NameOf(k), Str("do X"), Undefined, Undefined)).value,
              LiteLLM(RawAgent(NameOf(k), Str("do X"), Undefined, Undefined), k))]

NoOutput == [agent |-> Undefined, ok |-> FALSE, task |-> Undefined]

\* The router as lines 161-173 build it, about to be run.
InitDispatch ==
    /\ entry = "SwarmRouter.run"
    /\ \E n \in 1..DispatchAgents, type \in FanOutTypes :
          /\ agents = BuiltAgents(n)
          /\ swarmRouter =
                SwarmRouter(SwarmConfig(RawSwarm(TRUE, Str(type), Str("T"))).value, agents)
    /\ pc = "return"
    /\ returnType = Str("run_swarm")
    /\ DispatchIdle
    /\ LibraryIdle
    /\ OnboardingIdle
    /\ given = [yamlFile |-> Undefined, yamlString |-> Str("text")]
    /\ yamlFile = Str("agents.yaml")
    /\ yamlString = Str("text")
    /\ fileExists = FALSE
    /\ tree = NoConfig
    /\ model = Null
    /\ node = NoNode
    /\ constructed = NoValidation
    /\ config = NoConfig
    /\ idx = 0
    /\ modelInstance = NoModel
    /\ attempt = 0
    /\ exc = NoError
    /\ waited = <<>>
    /\ backends = <<>>
    /\ log = <<>>
    /\ err = NoError
    /\ result = NoResult

\* Every agent of the router is given the task; none is waited for.
FanOut ==
    /\ pc = "return"
    /\ running' = 1..Len(swarmRouter.agents)
    /\ slots' = [k \in 1..Len(swarmRouter.agents) |-> NoOutput]
    /\ completion' = <<>>
    /\ pc' = "running"
    /\ UNCHANGED <<yamlFile, yamlString, returnType, fileExists, tree, entry,
                   given, model, node, constructed, onboarding, artifactVars,
                   assistant, config, idx,
                   modelInstance, attempt, exc, waited, agents, backends,
                   swarmRouter, log, err, result>>

\* The run of one agent ends, with an output or with a failure; the outcome
\* is kept at the agent's position.
RunEnds ==
    /\ pc = "running"
    /\ \E k \in running, ok \in BOOLEAN :
          /\ slots' = [slots EXCEPT ![k] =
                          [agent |-> swarmRouter.agents[k].agentName, ok |-> ok,
                           task |-> swarmRouter.task]]
          /\ running' = running \ {k}
          /\ completion' = Append(completion, k)
    /\ UNCHANGED <<yamlFile, yamlString, returnType, fileExists, tree, entry,
                   given, model, node, constructed, onboarding, artifactVars,
                   assistant, pc, config, idx,
                   modelInstance, attempt, exc, waited, agents, backends,
                   swarmRouter, log, err, result>>

\* The join: the outcomes in the order of the agents, as they are for the
\* concurrent strategy and as one aggregate of them for the mixture.
Join ==
    /\ pc = "running"
    /\ running = {}
    /\ result' = Result("output", <<>>, NoRouter,
                        IF swarmRouter.swarmType.s = "ConcurrentWorkflow"
                        THEN slots
                        ELSE <<[agent |-> Str("aggregate"), ok |-> TRUE, task |-> swarmRouter.task,
                                parts |-> slots]>>)
    /\ pc' = "done"
    /\ UNCHANGED <<inputs, config, idx, modelInstance, attempt, exc, waited,
                   agents, backends, swarmRouter, log, err>>

NextDispatch ==
    \/ FanOut
    \/ RunEnds
    \/ Join

SpecDispatch == InitDispatch /\ [][NextDispatch]_vars

----------------------------------------------------------------------------
(* class OnboardingProcess: the constructor with loadExistingData, then    *)
(* one call of saveData or of askInput.  captureSystemData, logAgentData   *)
(* and the logger are imported; logAgentData returns or throws.            *)

\* The largest retryAttempts a caller gives saveData.
MaxSaveAttempts == 3

\* The largest number of times one call of askInput prompts.
MaxPrompts == 3

\* async saveData(retryAttempts = 3)
DefaultSaveAttempts == 3

\* let backoffTime = 1000
StartBackoff == 1000

\* The keys of this.userData that are looked at.
UserKeys == {"first_name", "email"}

\* this.userData = {}
EmptyData == [k \in UserKeys |-> Undefined]

DataValues ==
    {EmptyData,
     [first_name |-> Str("ann"), email |-> Undefined],
     [first_name |-> Str("bob"), email |-> Str("b@x")]}

\* A file: absent, there with a content that JSON.parse rejects, or there
\* with the JSON text of data.
FileValues ==
    {[exists |-> FALSE, parses |-> FALSE, data |-> EmptyData],
     [exists |-> TRUE, parses |-> FALSE, data |-> EmptyData]}
    \cup {[exists |-> TRUE, parses |-> TRUE, data |-> v] : v \in DataValues}

\* this.systemData = captureSystemData()
systemData == [platform |-> Str("linux")]

\* { ...this.userData, ...this.systemData }
combinedData(user, system) ==
    [k \in DOMAIN user \cup DOMAIN system |->
        IF k \in DOMAIN system THEN system[k] ELSE user[k]]

\* loadExistingData without the return after the main file is loaded.
loadExistingDataBoth(current, fs) ==
    LET main == fs.auto.exists /\ fs.auto.parses
        log1 == IF ~fs.auto.exists THEN <<>>
                ELSE IF main THEN <<Log("info", "loadExistingData", "main")>>
                ELSE <<Log("error", "loadExistingData", "main")>>
        data1 == IF main THEN fs.auto.data ELSE current
    IN  IF ~fs.cache.exists THEN [userData |-> data1, log |-> log1]
        ELSE IF fs.cache.parses
             THEN [userData |-> fs.cache.data,
                   log |-> Append(log1, Log("info", "loadExistingData", "cache"))]
             ELSE [userData |-> data1,
                   log |-> Append(log1, Log("error", "loadExistingData", "cache"))]

\* loadExistingData(), lines 28-49: this.userData and the log lines after it.
loadExistingData(current, fs) ==
    IF fs.auto.exists /\ fs.auto.parses
    THEN [userData |-> fs.auto.data,
          log |-> <<Log("info", "loadExistingData", "main")>>]
    ELSE LET log1 == IF fs.auto.exists
                     THEN <<Log("error", "loadExistingData", "main")>>
                     ELSE <<>>
         IN  IF ~fs.cache.exists THEN [userData |-> current, log |-> log1]
             ELSE IF fs.cache.parses
                  THEN [userData |-> fs.cache.data,
                        log |-> Append(log1, Log("info", "loadExistingData", "cache"))]
                  ELSE [userData |-> current,
                        log |-> Append(log1, Log("error", "loadExistingData", "cache"))]

\* String.prototype.toLowerCase, on the letters A to Z.
LowerChar(c) ==
    LET upper == "ABCDEFGHIJKLMNOPQRSTUVWXYZ"
        lower == "abcdefghijklmnopqrstuvwxyz"
        at == {i \in 1..Len(upper) : SubSeq(upper, i, i) = c}
    IN  IF at = {} THEN c ELSE LET i == CHOOSE j \in at : TRUE IN SubSeq(lower, i, i)

RECURSIVE toLowerCase(_)
toLowerCase(s) ==
    IF Len(s) = 0 THEN ""
    ELSE LowerChar(SubSeq(s, 1, 1)) \o toLowerCase(SubSeq(s, 2, Len(s)))

\* The test for quit without toLowerCase.
IsQuitExact(r) == trim(r) = "quit"

\* response.trim().toLowerCase() === "quit"
IsQuit(r) == toLowerCase(trim(r)) = "quit"

\* backoffTime grown by its starting value.
NextBackoffLinear(b) == b + 1000

\* backoffTime *= 2
NextBackoff(b) == b * 2

\* What the user types at a prompt.
RawInputs == {"", " ", "quit", " QUIT\n", "Quit", "ann", "  bob \n", "quitter"}

\* The arguments saveData is called with; undefined is no argument.
RetryArgValues == {Undefined} \cup {Num(n) : n \in -1..MaxSaveAttempts}

InitOnboarding ==
    /\ entry \in {"saveData", "askInput"}
    /\ files \in [auto : FileValues, cache : FileValues]
    /\ userData = EmptyData
    /\ IF entry = "saveData"
       THEN /\ \E arg \in RetryArgValues :
                  retryAttempts = DefaultParam(arg, Num(DefaultSaveAttempts)).n
            /\ askKey = ""
       ELSE /\ retryAttempts = 0
            /\ askKey \in UserKeys
    /\ response = ""
    /\ prompts = 0
    /\ saves = 0
    /\ backoffTime = 0
    /\ telemetry = <<>>
    /\ pc = "new"
    /\ DispatchIdle
    /\ LibraryIdle
    /\ given = [yamlFile |-> Undefined, yamlString |-> Undefined]
    /\ yamlFile = Null
    /\ yamlString = Null
    /\ fileExists = FALSE
    /\ tree = NoConfig
    /\ returnType = Str("auto")
    /\ model = Null
    /\ node = NoNode
    /\ constructed = NoValidation
    /\ config = NoConfig
    /\ idx = 0
    /\ modelInstance = NoModel
    /\ attempt = 0
    /\ exc = NoError
    /\ waited = <<>>
    /\ agents = <<>>
    /\ backends = <<>>
    /\ swarmRouter = NoRouter
    /\ log = <<>>
    /\ err = NoError
    /\ result = NoResult

\* What a step of OnboardingProcess leaves alone.
pipeline ==
    <<yamlFile, yamlString, returnType, fileExists, tree, entry, given, model,
      node, constructed, dispatch, artifactVars, assistant, config, idx,
      modelInstance, exc, agents, backends, swarmRouter, err, result>>

\* new OnboardingProcess(autoSavePath, cacheSavePath), lines 17-23.
Construct ==
    /\ pc = "new"
    /\ LET loaded == loadExistingData(userData, files)
       IN  /\ userData' = loaded.userData
           /\ log' = log \o loaded.log
    /\ pc' = IF entry = "askInput" THEN "ask" ELSE "ready"
    /\ UNCHANGED <<pipeline, files, askKey, response, prompts, saves,
                   retryAttempts, backoffTime, telemetry, attempt, waited>>

\* saveData(retryAttempts) is called, lines 56-58.
SaveDataCalled ==
    /\ entry = "saveData"
    /\ pc = "ready"
    /\ attempt' = 0
    /\ backoffTime' = StartBackoff
    /\ saves' = saves + 1
    /\ pc' = "save"
    /\ UNCHANGED <<pipeline, userData, files, askKey, response, prompts,
                   retryAttempts, telemetry, waited, log>>

\* One turn of the while loop up to its return or its await, lines 60-67.
SaveAttempt ==
    /\ pc = "save"
    /\ attempt < retryAttempts
    /\ \E ok \in BOOLEAN :
          /\ telemetry' = Append(telemetry,
                                 [data |-> combinedData(userData, systemData), ok |-> ok])
          /\ IF ok
             THEN pc' = "returned" /\ UNCHANGED log
             ELSE /\ pc' = "sleep"
                  /\ log' = Append(log, Log("error", "saveData", ToString(attempt + 1)))
    /\ UNCHANGED <<pipeline, userData, files, askKey, response, prompts, saves,
                   retryAttempts, backoffTime, attempt, waited>>

\* await sleep(backoffTime); attempt += 1; backoffTime *= 2, lines 70-72.
SaveSleep ==
    /\ pc = "sleep"
    /\ waited' = Append(waited, backoffTime)
    /\ attempt' = attempt + 1
    /\ backoffTime' = NextBackoff(backoffTime)
    /\ pc' = "save"
    /\ UNCHANGED <<pipeline, userData, files, askKey, response, prompts, saves,
                   retryAttempts, telemetry, log>>

\* The loop is left without a return: line 75.
SaveGiveUp ==
    /\ pc = "save"
    /\ ~(attempt < retryAttempts)
    /\ log' = Append(log, Log("error", "saveData failed", ToString(retryAttempts)))
    /\ pc' = "returned"
    /\ UNCHANGED <<pipeline, userData, files, askKey, response, prompts, saves,
                   retryAttempts, backoffTime, telemetry, attempt, waited>>

\* askInput(prompt, key) up to its first await after the prompt, lines
\* 85-93 and 95-97; promptUser resolves with the trimmed line, line 109.
AskInput ==
    /\ entry = "askInput"
    /\ pc = "ask"
    /\ prompts < MaxPrompts
    /\ prompts' = prompts + 1
    /\ \E raw \in RawInputs :
          /\ response' = trim(raw)
          /\ IF IsQuit(response')
             THEN /\ log' = Append(log, Log("info", "askInput", "quit"))
                  /\ pc' = "exited"
                  /\ UNCHANGED <<userData, attempt, backoffTime, saves, retryAttempts>>
             ELSE IF Len(trim(response')) = 0
                  THEN /\ log' = Append(log, Log("warn", "askInput",
                                                 askKey \o " cannot be empty."))
                       /\ pc' = "ask"
                       /\ UNCHANGED <<userData, attempt, backoffTime, saves, retryAttempts>>
                  ELSE /\ userData' = [userData EXCEPT ![askKey] = Str(trim(response'))]
                       /\ retryAttempts' = DefaultParam(Undefined, Num(DefaultSaveAttempts)).n
                       /\ attempt' = 0
                       /\ backoffTime' = StartBackoff
                       /\ saves' = saves + 1
                       /\ pc' = "save"
                       /\ UNCHANGED log
    /\ UNCHANGED <<pipeline, files, askKey, telemetry, waited>>

NextOnboarding ==
    \/ Construct
    \/ SaveDataCalled
    \/ SaveAttempt
    \/ SaveSleep
    \/ SaveGiveUp
    \/ AskInput

SpecOnboarding == InitOnboarding /\ [][NextOnboarding]_vars

\* Every step is a statement of a running call or a timer that fires.
SpecOnboardingFair == SpecOnboarding /\ WF_vars(NextOnboarding)

----------------------------------------------------------------------------
(* class FileVersion and class Artifact: calls of create, edit, save and   *)
(* load, in any order, on an artifact that was constructed with the        *)
(* default editCount and versions.  fs is imported: readFileSync throws    *)
(* when the file is not there.  The timestamp of a FileVersion is not      *)
(* looked at by any method that is modelled, and is left out.              *)

\* The largest number of calls that are made on one artifact.
MaxCalls == 4

\* The contents that are written, and the contents of the file.
ContentValues == {"", "a", "b"}

\* new FileVersion(versionNumber, content), lines 54-58.
FileVersion(versionNumber, content) ==
    [versionNumber |-> versionNumber, content |-> content]

\* create(initialContent), lines 105-114.
create(a, initialContent) ==
    [contents |-> initialContent,
     versions |-> Append(a.versions, FileVersion(1, initialContent)),
     editCount |-> 0]

\* edit with the new version made before this.contents is assigned.
editVersionFirst(a, newContent) ==
    [contents |-> newContent,
     editCount |-> a.editCount + 1,
     versions |-> Append(a.versions,
                         FileVersion(Len(a.versions) + 1, a.contents))]

\* edit(newContent), lines 116-126.
edit(a, newContent) ==
    [contents |-> newContent,
     editCount |-> a.editCount + 1,
     versions |-> Append(a.versions,
                         FileVersion(Len(a.versions) + 1, newContent))]

\* load(), lines 132-135, when readFileSync returns text.
load(a, text) == create([a EXCEPT !.contents = text], text)

\* getVersion(versionNumber), lines 137-139: the first version of that
\* number, or null.
getVersion(a, versionNumber) ==
    LET at == {i \in 1..Len(a.versions) :
                  a.versions[i].versionNumber = versionNumber}
    IN  IF at = {} THEN Null
        ELSE a.versions[CHOOSE i \in at : \A j \in at : i <= j]

InitArtifact ==
    /\ entry = "Artifact"
    /\ \E c \in ContentValues :
          artifact = [contents |-> c, editCount |-> 0, versions |-> <<>>]
    /\ disk \in {[exists |-> FALSE, content |-> ""]}
                \cup {[exists |-> TRUE, content |-> c] : c \in ContentValues}
    /\ calls = <<>>
    /\ pc = "ready"
    /\ DispatchIdle
    /\ OnboardingIdle
    /\ tools = <<>>
    /\ availableFunctions = {}
    /\ remote = [status |-> "none", toolCalls |-> <<>>]
    /\ run = [status |-> "none", toolCalls |-> <<>>]
    /\ toolCalls = <<>>
    /\ toolOutputs = <<>>
    /\ submissions = 0
    /\ given = [yamlFile |-> Undefined, yamlString |-> Undefined]
    /\ yamlFile = Null
    /\ yamlString = Null
    /\ fileExists = FALSE
    /\ tree = NoConfig
    /\ returnType = Str("auto")
    /\ model = Null
    /\ node = NoNode
    /\ constructed = NoValidation
    /\ config = NoConfig
    /\ idx = 0
    /\ modelInstance = NoModel
    /\ attempt = 0
    /\ exc = NoError
    /\ waited = <<>>
    /\ agents = <<>>
    /\ backends = <<>>
    /\ swarmRouter = NoRouter
    /\ log = <<>>
    /\ err = NoError
    /\ result = NoResult

\* What neither a call on an artifact nor a step of an assistant assigns.
around ==
    <<yamlFile, yamlString, returnType, fileExists, tree, entry, given, model,
      node, constructed, dispatch, onboarding, config, idx, modelInstance,
      attempt, exc, waited, agents, backends, swarmRouter>>

\* artifact.create(initialContent)
ArtifactCreate ==
    /\ entry = "Artifact"
    /\ Len(calls) < MaxCalls
    /\ \E initialContent \in ContentValues :
          artifact' = create(artifact, initialContent)
    /\ calls' = Append(calls, [op |-> "create", ok |-> TRUE])
    /\ UNCHANGED <<around, assistant, pc, result, disk, log, err>>

\* artifact.edit(newContent)
ArtifactEdit ==
    /\ entry = "Artifact"
    /\ Len(calls) < MaxCalls
    /\ \E newContent \in ContentValues :
          artifact' = edit(artifact, newContent)
    /\ calls' = Append(calls, [op |-> "edit", ok |-> TRUE])
    /\ UNCHANGED <<around, assistant, pc, result, disk, log, err>>

\* artifact.save(), lines 128-130.
ArtifactSave ==
    /\ entry = "Artifact"
    /\ Len(calls) < MaxCalls
    /\ disk' = [exists |-> TRUE, content |-> artifact.contents]
    /\ calls' = Append(calls, [op |-> "save", ok |-> TRUE])
    /\ UNCHANGED <<around, assistant, pc, result, artifact, log, err>>

\* artifact.load(): readFileSync throws before anything is assigned, or
\* its text becomes the contents and create is called with it.
ArtifactLoad ==
    /\ entry = "Artifact"
    /\ Len(calls) < MaxCalls
    /\ IF disk.exists
       THEN /\ artifact' = load(artifact, disk.content)
            /\ calls' = Append(calls, [op |-> "load", ok |-> TRUE])
            /\ UNCHANGED err
       ELSE /\ err' = [class |-> "Error", message |-> "ENOENT"]
            /\ calls' = Append(calls, [op |-> "load", ok |-> FALSE])
            /\ UNCHANGED artifact
    /\ UNCHANGED <<around, assistant, pc, result, disk, log>>

NextArtifact ==
    \/ ArtifactCreate
    \/ ArtifactEdit
    \/ ArtifactSave
    \/ ArtifactLoad

SpecArtifact == InitArtifact /\ [][NextArtifact]_vars

----------------------------------------------------------------------------
(* class OpenAIAssistant: addFunction, and one call of run or of           *)
(* _handleToolCalls with _waitForRun.  this.client is imported: a call of  *)
(* it returns or throws, and the run it reports changes as the API         *)
(* decides.  The functions that are registered return when called.         *)

\* The largest number of tool calls of one required action.
MaxToolCalls == 2

\* The largest number of times a run requires action.
MaxRounds == 2

\* The largest number of calls of addFunction.
MaxTools == 2

\* func.name of the functions that are registered or called.
FunctionNames == {"f", "g"}

\* JSON.parse, as far as the call looks at its result: the text of an
\* array, the text of an object, or a text that is rejected.
JSONparse(text) ==
    LET n == Len(text)
        first == IF n > 0 THEN SubSeq(text, 1, 1) ELSE ""
        last == IF n > 0 THEN SubSeq(text, n, n) ELSE ""
    IN  IF n >= 2 /\ first = "[" /\ last = "]"
        THEN [ok |-> TRUE, iterable |-> TRUE]
        ELSE IF n >= 2 /\ first = "{" /\ last = "}"
             THEN [ok |-> TRUE, iterable |-> FALSE]
             ELSE [ok |-> FALSE, iterable |-> FALSE]

\* run.requiredAction.submitToolOutputs.toolCalls: each call has its own id
\* and asks for a function with the text of its arguments (an array, an
\* object, a text JSON.parse rejects) or for a tool of another type.
RequiredActions ==
    UNION {{[i \in 1..n |->
                [id |-> "call_" \o ToString(i), type |-> kinds[i].type,
                 name |-> kinds[i].name, arguments |-> kinds[i].arguments]] :
            kinds \in [1..n ->
                        {[type |-> "function", name |-> "f", arguments |-> "[]"],
                         [type |-> "function", name |-> "g", arguments |-> "[]"],
                         [type |-> "function", name |-> "f", arguments |-> "{}"],
                         [type |-> "function", name |-> "f", arguments |-> "{"],
                         [type |-> "code_interpreter", name |-> "",
                          arguments |-> ""]}]} :
           n \in 1..MaxToolCalls}

\* The runs the API reports: the status and, when action is required, the
\* tool calls.
RunValues ==
    {[status |-> status, toolCalls |-> <<>>] :
        status \in {"queued", "in_progress", "cancelling", "cancelled",
                    "completed", "failed", "expired"}}
        \cup {[status |-> "requires_action", toolCalls |-> required] :
                 required \in RequiredActions}

\* The for loop of _handleToolCalls, lines 112-127: the outputs that were
\* pushed, or the error that ended the loop.
RECURSIVE ToolOutputs(_, _)
ToolOutputs(required, available) ==
    IF required = <<>> THEN [error |-> NoError, outputs |-> <<>>]
    ELSE LET toolCall == Head(required)
             rest == ToolOutputs(Tail(required), available)
             functionArgs == JSONparse(toolCall.arguments)
         IN  IF toolCall.type # "function" THEN rest
             ELSE IF ~functionArgs.ok
                  THEN [error |-> [class |-> "SyntaxError", message |-> "JSON.parse"],
                        outputs |-> <<>>]
             ELSE IF toolCall.name \notin available THEN rest
             ELSE IF ~functionArgs.iterable
                  THEN [error |-> [class |-> "TypeError", message |-> "not iterable"],
                        outputs |-> <<>>]
             ELSE IF rest.error # NoError THEN rest
             ELSE [error |-> NoError,
                   outputs |->
                      <<[toolCallId |-> toolCall.id,
                         output |-> TemplateText(IF toolCall.name = "f"
                                                 THEN Num(1) ELSE Undefined)]>>
                         \o rest.outputs]

InitAssistant ==
    /\ entry \in {"run", "_handleToolCalls"}
    /\ tools = <<>>
    /\ availableFunctions = {}
    /\ IF entry = "run"
       THEN /\ remote = [status |-> "none", toolCalls |-> <<>>]
            /\ pc = "create"
       ELSE /\ remote \in RunValues
            /\ pc = "handle"
    /\ run = remote
    /\ toolCalls = <<>>
    /\ toolOutputs = <<>>
    /\ submissions = 0
    /\ DispatchIdle
    /\ OnboardingIdle
    /\ artifact = [contents |-> "", editCount |-> 0, versions |-> <<>>]
    /\ disk = [exists |-> FALSE, content |-> ""]
    /\ calls = <<>>
    /\ given = [yamlFile |-> Undefined, yamlString |-> Undefined]
    /\ yamlFile = Null
    /\ yamlString = Null
    /\ fileExists = FALSE
    /\ tree = NoConfig
    /\ returnType = Str("auto")
    /\ model = Null
    /\ node = NoNode
    /\ constructed = NoValidation
    /\ config = NoConfig
    /\ idx = 0
    /\ modelInstance = NoModel
    /\ attempt = 0
    /\ exc = NoError
    /\ waited = <<>>
    /\ agents = <<>>
    /\ backends = <<>>
    /\ swarmRouter = NoRouter
    /\ log = <<>>
    /\ err = NoError
    /\ result = NoResult

\* addFunction(func, description, parameters), lines 93-107.
AddFunction ==
    /\ entry \in {"run", "_handleToolCalls"}
    /\ pc \notin {"returned", "thrown"}
    /\ Len(tools) < MaxTools
    /\ \E name \in FunctionNames :
          /\ tools' = Append(tools, name)
          /\ availableFunctions' = availableFunctions \cup {name}
    /\ UNCHANGED <<around, artifactVars, log, remote, run, toolCalls, toolOutputs,
                   submissions, pc, err, result>>

\* run(task), lines 192-201: the run is created, or the client throws.
RunCreate ==
    /\ pc = "create"
    /\ \/ /\ remote' = [status |-> "queued", toolCalls |-> <<>>]
          /\ run' = remote'
          /\ pc' = "retrieve"
          /\ UNCHANGED err
       \/ /\ err' = [class |-> "Error", message |-> "client"]
          /\ pc' = "thrown"
          /\ UNCHANGED <<remote, run>>
    /\ UNCHANGED <<around, artifactVars, log, tools, availableFunctions, toolCalls,
                   toolOutputs, submissions, result>>

\* The API moves the run on: it is worked on, it requires action, it is
\* cancelled by someone, or it ends.
RemoteAdvances ==
    /\ entry \in {"run", "_handleToolCalls"}
    /\ pc \notin {"returned", "thrown"}
    /\ \E next \in RunValues :
          /\ CASE remote.status = "queued" ->
                      next.status \in {"in_progress", "cancelling", "expired"}
               [] remote.status = "in_progress" ->
                      \/ next.status \in {"completed", "failed", "cancelling",
                                          "expired"}
                      \/ /\ next.status = "requires_action"
                         /\ submissions < MaxRounds
               [] remote.status = "requires_action" ->
                      next.status \in {"cancelling", "expired"}
               [] remote.status = "cancelling" -> next.status = "cancelled"
               [] OTHER -> FALSE
          /\ remote' = next
    /\ UNCHANGED <<around, artifactVars, log, tools, availableFunctions, run, toolCalls,
                   toolOutputs, submissions, pc, err, result>>

\* _waitForRun, lines 142-156: retrieve returns the run as it is now, or
\* throws; then the test of the status.
Retrieve ==
    /\ pc = "retrieve"
    /\ \/ /\ run' = remote
          /\ CASE remote.status = "completed" ->
                      /\ pc' = IF entry = "run" THEN "respond" ELSE "returned"
                      /\ result' = IF entry = "run" THEN result
                                   ELSE Result("run", <<>>, NoRouter, <<remote>>)
                      /\ UNCHANGED err
               [] remote.status = "requires_action" ->
                      /\ pc' = "handle"
                      /\ UNCHANGED <<err, result>>
               [] remote.status \in {"failed", "expired"} ->
                      /\ err' = [class |-> "Error",
                              message |-> "Run failed with status: "
                                             \o remote.status]
                      /\ pc' = "thrown"
                      /\ UNCHANGED result
               [] OTHER ->
                      /\ pc' = "sleep"
                      /\ UNCHANGED <<err, result>>
       \/ /\ err' = [class |-> "Error", message |-> "client"]
          /\ pc' = "thrown"
          /\ UNCHANGED <<run, result>>
    /\ UNCHANGED <<around, artifactVars, log, tools, availableFunctions, remote,
                   toolCalls, toolOutputs, submissions>>

\* await sleep(3000), line 157.
Sleep ==
    /\ pc = "sleep"
    /\ pc' = "retrieve"
    /\ UNCHANGED <<around, artifactVars, log, assistant, err, result>>

\* _handleToolCalls, lines 110-135, up to the call of _waitForRun: a run
\* that does not require action is returned; else the outputs are built and
\* sent.  The API takes them and queues the run when the run still requires
\* action; the client returns the run, or throws.
HandleToolCalls ==
    /\ pc = "handle"
    /\ IF run.status # "requires_action"
       THEN /\ pc' = "returned"
            /\ result' = Result("run", <<>>, NoRouter, <<run>>)
            /\ UNCHANGED <<remote, run, toolCalls, toolOutputs, submissions, err>>
       ELSE LET built == ToolOutputs(run.toolCalls, availableFunctions)
            IN  IF built.error # NoError
                THEN /\ err' = built.error
                     /\ pc' = "thrown"
                     /\ UNCHANGED <<remote, run, toolCalls, toolOutputs,
                                    submissions, result>>
                ELSE /\ toolCalls' = run.toolCalls
                     /\ toolOutputs' = built.outputs
                     /\ submissions' = submissions + 1
                     /\ remote' = IF remote.status = "requires_action"
                                  THEN [status |-> "queued", toolCalls |-> <<>>]
                                  ELSE remote
                     /\ \/ /\ run' = remote'
                           /\ pc' = "retrieve"
                           /\ UNCHANGED err
                        \/ /\ err' = [class |-> "Error", message |-> "client"]
                           /\ pc' = "thrown"
                           /\ UNCHANGED run
                     /\ UNCHANGED result
    /\ UNCHANGED <<around, artifactVars, log, tools, availableFunctions>>

\* run(task), line 205, after _waitForRun has returned: _getResponse().
Respond ==
    /\ pc = "respond"
    /\ \E text \in {"", "answer"} :
          result' = Result("response", <<>>, NoRouter, <<text>>)
    /\ pc' = "returned"
    /\ UNCHANGED <<around, artifactVars, log, assistant, err>>

\* The steps of the assistant's own code.
AssistantStep ==
    \/ RunCreate
    \/ Retrieve
    \/ Sleep
    \/ HandleToolCalls
    \/ Respond

NextAssistant ==
    \/ AddFunction
    \/ RemoteAdvances
    \/ AssistantStep

SpecAssistant == InitAssistant /\ [][NextAssistant]_vars

\* Every step of the assistant's code that can be taken is taken in the end.
SpecAssistantFair == SpecAssistant /\ WF_vars(AssistantStep)

----------------------------------------------------------------------------
(* The two constructors by themselves: new AgentConfig(node) with the      *)
(* options it hands to new Agent, and new SwarmConfig(node), for raw nodes *)
(* in which up to two keys differ from a plain node.                       *)

AgentKeys ==
    {"agent_name", "system_prompt", "model_name", "max_loops", "autosave",
     "dashboard", "verbose", "dynamic_temperature_enabled", "saved_state_path",
     "user_name", "retry_attempts", "context_length", "return_step_meta",
     "output_type", "auto_generate_prompt", "artifacts_on",
     "artifacts_file_extension", "artifacts_output_path"}

SwarmKeys ==
    {"name", "description", "max_loops", "swarm_type", "task", "flow",
     "autosave", "return_json", "rules"}

\* The property of this that the constructors assign from a key.
KeyField ==
    [agent_name |-> "agentName",
     system_prompt |-> "systemPrompt",
     model_name |-> "modelName",
     max_loops |-> "maxLoops",
     autosave |-> "autosave",
     dashboard |-> "dashboard",
     verbose |-> "verbose",
     dynamic_temperature_enabled |-> "dynamicTemperatureEnabled",
     saved_state_path |-> "savedStatePath",
     user_name |-> "userName",
     retry_attempts |-> "retryAttempts",
     context_length |-> "contextLength",
     return_step_meta |-> "returnStepMeta",
     output_type |-> "outputType",
     auto_generate_prompt |-> "autoGeneratePrompt",
     artifacts_on |-> "artifactsOn",
     artifacts_file_extension |-> "artifactsFileExtension",
     artifacts_output_path |-> "artifactsOutputPath",
     name |-> "name",
     description |-> "description",
     swarm_type |-> "swarmType",
     task |-> "task",
     flow |-> "flow",
     return_json |-> "returnJson",
     rules |-> "rules"]

FlagKeys ==
    {"autosave", "dashboard", "verbose", "dynamic_temperature_enabled",
     "return_step_meta", "auto_generate_prompt", "artifacts_on", "return_json"}

CountKeys == {"max_loops", "retry_attempts", "context_length"}

\* The values a document may give a key.
KeyValues(key) ==
    CASE key \in FlagKeys -> {Bool(TRUE), Bool(FALSE)}
      [] key \in CountKeys -> {Num(-1), Num(0), Num(1), Num(5)}
      [] key = "system_prompt" -> BadPromptValues \cup GoodPromptValues
      [] key = "swarm_type" -> SwarmTypeValues
      [] OTHER -> {Str(""), Str("x")}

PlainAgent == RawAgent(Str("A"), Str("do X"), Undefined, Undefined)

PlainSwarm == RawSwarm(TRUE, Str("ConcurrentWorkflow"), Str("T"))

\* The nodes that differ from plain in at most two keys.
NodesAround(plain, keys) ==
    {[[plain EXCEPT ![k1] = v1] EXCEPT ![k2] = v2] :
        <<k1, v1, k2, v2>> \in
            UNION {{<<a, x, b, y>> : x \in KeyValues(a) \cup {plain[a]},
                                      y \in KeyValues(b) \cup {plain[b]}}
                   : <<a, b>> \in keys \X keys}}

InitValidate ==
    /\ entry \in {"AgentConfig", "SwarmConfig"}
    /\ node \in IF entry = "AgentConfig"
               THEN NodesAround(PlainAgent, AgentKeys)
               ELSE NodesAround(PlainSwarm, SwarmKeys)
    /\ constructed = NoValidation
    /\ yamlFile = Null
    /\ yamlString = Null
    /\ given = [yamlFile |-> Undefined, yamlString |-> Undefined]
    /\ fileExists = FALSE
    /\ tree = NoConfig
    /\ returnType = Str("auto")
    /\ model = Null
    /\ LocalsAtEntry
    /\ DispatchIdle
    /\ LibraryIdle
    /\ OnboardingIdle

\* const validatedConfig = new AgentConfig(agentConfig), line 105.
ConstructAgentConfig ==
    /\ entry = "AgentConfig"
    /\ pc = "call"
    /\ constructed' = AgentConfig(node)
    /\ IF constructed'.ok
       THEN pc' = "validated" /\ UNCHANGED err
       ELSE pc' = "failed" /\ err' = constructed'.error
    /\ UNCHANGED <<yamlFile, yamlString, returnType, fileExists, tree, entry,
                   given, model, node, config, idx, modelInstance, attempt, exc,
                   waited, agents, backends, swarmRouter, log, result, dispatch,
                   onboarding, artifactVars, assistant>>

\* new Agent({...}), lines 106-125: the options the validated configuration
\* is handed on with.
HandToAgent ==
    /\ entry = "AgentConfig"
    /\ pc = "validated"
    /\ agents' = <<Agent(constructed.value, NoModel)>>
    /\ pc' = "built"
    /\ UNCHANGED <<inputs, config, idx, modelInstance, attempt, exc, waited,
                   backends, swarmRouter, log, err, result>>

\* const swarmConfig = new SwarmConfig(config.swarm_architecture), line 161.
ConstructSwarmConfig ==
    /\ entry = "SwarmConfig"
    /\ pc = "call"
    /\ constructed' = SwarmConfig(node)
    /\ IF constructed'.ok
       THEN pc' = "validated" /\ UNCHANGED err
       ELSE pc' = "failed" /\ err' = constructed'.error
    /\ UNCHANGED <<yamlFile, yamlString, returnType, fileExists, tree, entry,
                   given, model, node, config, idx, modelInstance, attempt, exc,
                   waited, agents, backends, swarmRouter, log, result, dispatch,
                   onboarding, artifactVars, assistant>>

NextValidate ==
    \/ ConstructAgentConfig
    \/ HandToAgent
    \/ ConstructSwarmConfig

SpecValidate == InitValidate /\ [][NextValidate]_vars

----------------------------------------------------------------------------
(* What the properties below speak of.                                     *)

\* A string of white space only (the empty string included).
OnlyWhitespace(s) == \A k \in 1..Len(s) : SubSeq(s, k, k) \in {" ", "\t", "\n"}

\* A system prompt that is missing, not a string, empty or blank.
PromptUnusable(p) == p.t # "string" \/ OnlyWhitespace(p.s)

PromptMessage == "System prompt must be a non-empty string"

SwarmTypeMessage ==
    "Swarm type must be one of: SequentialWorkflow, ConcurrentWorkflow, AgentRearrange, MixtureOfAgents, auto"

\* The messages of the errors thrown by the imported classes.
ImportedMessages == {"LiteLLM", "new Agent", "SwarmRouter", "run"}

\* The names the specification gives the five strategies.
ShortTypeNames == {"Sequential", "Concurrent", "Rearrange", "MixtureOfAgents", "Auto"}

\* The names the code gives them.
LongTypeNames ==
    {"SequentialWorkflow", "ConcurrentWorkflow", "AgentRearrange", "MixtureOfAgents", "auto"}

IsTypeIn(names, v) == v.t = "string" /\ v.s \in names

\* The call has loaded a document that declares a swarm.
SwarmDeclared == config.shape = "map" /\ config.swarm_architecture.present

\* The error reports of createAgentWithRetry about the agent at position k.
Reports(k) ==
    Cardinality({j \in 1..Len(log) :
        /\ log[j].level = "error"
        /\ log[j].site = "createAgentWithRetry"
        /\ log[j].text = NameOf(k).s})

\* The call failed in an attempt at the agent at position idx.
FailedInAttempt ==
    /\ pc = "failed"
    /\ attempt >= 1
    /\ Len(agents) = idx - 1
    /\ err.message \in {PromptMessage, "new Agent"}

\* The loaded document is the one of the two-agent scenario with the swarm
\* type named type.
TwoAgentSwarmCall(type) ==
    /\ config.shape = "map"
    /\ Len(config.agents) = 2
    /\ \A k \in 1..2 : ~PromptUnusable(config.agents[k].system_prompt)
    /\ config.swarm_architecture = RawSwarm(TRUE, Str(type), Str("T"))
    /\ returnType = Str("run_swarm")

----------------------------------------------------------------------------
(* C1: an agent node whose system_prompt is missing, not a string, empty   *)
(* or blank never yields an agent: the agent at its position is never      *)
(* built, the call never gets past it, and the one attempt made at it     *)
(* ends in the validation error, which the call fails with.                *)
C1_UnusablePromptNeverYieldsAgent ==
    \A k \in 1..Len(config.agents) :
        PromptUnusable(config.agents[k].system_prompt) =>
            /\ Len(agents) < k
            /\ pc \notin {"swarm", "return", "done"}
            /\ (idx = k /\ pc = "attempt") => attempt = 0
            /\ (idx = k /\ pc \notin {"loop", "attempt"}) =>
                  /\ pc \in {"catch", "failed"}
                  /\ pc = "catch" => exc.message = PromptMessage
                  /\ pc = "failed" =>
                        /\ err.message \in {PromptMessage, "LiteLLM"}
                        /\ result = NoResult

C1_Witness ==
    /\ pc = "failed"
    /\ Len(config.agents) = 2
    /\ idx = 2
    /\ Len(agents) = 1
    /\ config.agents[2].system_prompt = Str(" \t\n")
    /\ err.message = PromptMessage

C4_Claim_BogusSwarmBuildsNothing ==
    (SwarmDeclared /\ config.swarm_architecture.swarm_type = Str("Bogus")) =>
        Len(backends) = 0 /\ Len(agents) = 0

(* C5: with an agent node in the document that fails validation, no model  *)
(* backend is obtained and no agent is constructed during the call.        *)
C5_Claim_InvalidNodeBuildsNothing ==
    (\E k \in 1..Len(config.agents) : PromptUnusable(config.agents[k].system_prompt)) =>
        Len(backends) = 0 /\ Len(agents) = 0

(* C6: with a returnType outside auto, swarm, agents, both, tasks,         *)
(* run_swarm, the call loads no document into agents, creates no model     *)
(* backend and builds no router before it fails.                           *)
C6_Claim_BadReturnTypeBuildsNothing ==
    ~IsTypeIn({"auto", "swarm", "agents", "both", "tasks", "run_swarm"}, returnType) =>
        /\ Len(backends) = 0
        /\ Len(agents) = 0
        /\ ~swarmRouter.present
        /\ pc \notin {"attempt", "catch", "backoff", "swarm"}

(* C7: construction is all or nothing.  The agents built are those of the  *)
(* document's first nodes, in order, none left out; the call gets past the *)
(* loop only with every agent built; a call that returns hands back the    *)
(* whole list (or its router over the whole list); a call that failed      *)
(* returns nothing.                                                        *)
C7_AllOrNothing ==
    /\ Len(agents) <= Len(config.agents)
    /\ \A k \in 1..Len(agents) : agents[k].agentName = config.agents[k].agent_name
    /\ pc \in {"loop", "attempt", "catch", "backoff"} => Len(agents) = idx - 1
    /\ pc \in {"swarm", "return", "done"} => Len(agents) = Len(config.agents)
    /\ swarmRouter.present => swarmRouter.agents = agents
    /\ pc = "done" =>
          /\ err = NoError
          /\ result.kind \in {"agent", "agents", "pair"} => result.agents = agents
          /\ result.kind = "agent" => Len(config.agents) = 1
          /\ result.kind \in {"router", "pair"} => result.router = swarmRouter
    /\ pc = "failed" => result = NoResult

C7_Witness ==
    /\ pc = "failed"
    /\ Len(config.agents) = 2
    /\ Len(agents) = 1
    /\ idx = 2
    /\ attempt = 3
    /\ err.message = "new Agent"
    /\ result = NoResult

\* retryAttempts of the validated configuration of the node at position k.
RetryAttemptsOf(k) == AgentConfigFields(config.agents[k]).retryAttempts.n

\* The agent at position idx - 1 has just been built.
JustBuilt == pc = "loop" /\ idx >= 2 /\ Len(agents) = idx - 1

\* The call failed at position idx on a transient error.
FailedOnTransient ==
    /\ FailedInAttempt
    /\ err.class \in {"ConnectionError", "TimeoutError", "RetryError"}

(* C8 as stated: the bound is the agent's retryAttempts.  An agent is      *)
(* built after k transient failures only if k < retryAttempts, and         *)
(* construction fails on transient errors after exactly retryAttempts      *)
(* attempts.                                                               *)
C8_Original_BoundIsRetryAttempts ==
    /\ JustBuilt => Reports(idx - 1) < RetryAttemptsOf(idx - 1)
    /\ FailedOnTransient => attempt = RetryAttemptsOf(idx)

(* C8, amended: the bound is the wrapper's three attempts, whatever        *)
(* retryAttempts is.  An agent built after k transient failures took       *)
(* exactly k+1 attempts with k < 3, and construction fails on transient    *)
(* errors after exactly 3 attempts, each of them failed.                   *)
C8_BoundIsThreeAttempts ==
    /\ attempt <= 3
    /\ JustBuilt => attempt = Reports(idx - 1) + 1 /\ Reports(idx - 1) < 3
    /\ FailedOnTransient => attempt = 3 /\ Reports(idx) = 3
    /\ pc = "backoff" => attempt < 3

C8_Witness ==
    /\ FailedOnTransient
    /\ attempt = 3
    /\ config.agents[idx].retry_attempts = Num(5)

(* C9: only transient errors are retried.  A wait and a further attempt    *)
(* follow a ConnectionError or TimeoutError only; any other error thrown   *)
(* in an attempt reaches the caller as it is, in the next step, with no    *)
(* wait and no further attempt; a validation error does so after exactly   *)
(* one attempt.                                                            *)
C9_OnlyTransientRetried ==
    /\ [](pc = "backoff" => exc.class \in {"ConnectionError", "TimeoutError"})
    /\ []((FailedInAttempt /\ err.message = PromptMessage) =>
             attempt = 1 /\ waited = <<>>)
    /\ [][(pc = "catch" /\ exc.class \notin {"ConnectionError", "TimeoutError"}) =>
             /\ pc' = "failed"
             /\ err' = exc
             /\ attempt' = attempt
             /\ waited' = waited
             /\ agents' = agents]_vars

C9_Witness ==
    /\ FailedInAttempt
    /\ err.class = "TypeError"
    /\ attempt = 1
    /\ waited = <<>>

(* C10: every failed attempt is reported before the next attempt starts    *)
(* and before the failure reaches the caller.  When an attempt starts or a *)
(* wait begins, the error reports about the agent are as many as the       *)
(* attempts that failed; the report of a failure that is given up precedes *)
(* the caller's own error line.                                            *)
C10_FailuresReportedFirst ==
    /\ pc \in {"attempt", "backoff"} => Reports(idx) = attempt
    /\ pc = "catch" => Reports(idx) = attempt - 1
    /\ pc = "backoff" => log[Len(log)].site = "createAgentWithRetry"
    /\ FailedInAttempt =>
          /\ Reports(idx) = attempt
          /\ Len(log) >= 2
          /\ log[Len(log)].site = "createAgentsFromYaml"
          /\ log[Len(log) - 1] = Log("error", "createAgentWithRetry", NameOf(idx).s)

C10_Witness ==
    /\ pc = "attempt"
    /\ attempt = 2
    /\ Reports(idx) = 2


----------------------------------------------------------------------------
(* C11: a call that asks for "swarm" or "run_swarm" on a document without *)
(* a swarm_architecture key never returns anything, be it agents, null or *)
(* an output, and builds no router; once its agents are built it fails,   *)
(* and the error it fails with is the one that names the missing router.  *)
SwarmAskedNotDeclared ==
    /\ SetHas({"swarm", "run_swarm"}, returnType)
    /\ tree.shape = "map"
    /\ ~tree.swarm_architecture.present

C11_MissingSwarmAlwaysFails ==
    /\ [](SwarmAskedNotDeclared =>
            /\ pc # "done"
            /\ result = NoResult
            /\ ~swarmRouter.present
            /\ (pc = "failed" /\ config.agentsKind = "array"
                   /\ Len(agents) = Len(config.agents))
                 => err.message = SwarmNotCreatedError.message)
    /\ [][(SwarmAskedNotDeclared /\ pc = "return")
            => (pc' = "failed" /\ err' = SwarmNotCreatedError)]_vars

C11_Witness ==
    /\ SwarmAskedNotDeclared
    /\ pc = "failed"
    /\ Len(agents) = 2
    /\ err.message = "Cannot run swarm: SwarmRouter not created."

----------------------------------------------------------------------------
(* C12: with returnType "agents" a call that returns gives the agent       *)
(* itself when the document declares exactly one agent and the list of    *)
(* all agents otherwise, the i-th of them built from the i-th node.       *)
C12_AgentsReturnedInOrder ==
    (pc = "done" /\ returnType = Str("agents")) =>
        /\ result.kind = (IF Len(config.agents) = 1 THEN "agent" ELSE "agents")
        /\ result.router = NoRouter
        /\ Len(result.agents) = Len(config.agents)
        /\ \A i \in 1..Len(config.agents) :
              /\ result.agents[i].agentName = config.agents[i].agent_name
              /\ result.agents[i].systemPrompt = config.agents[i].system_prompt
              /\ result.agents[i].llm.id = i

C12_Witness ==
    /\ pc = "done"
    /\ returnType = Str("agents")
    /\ result.kind = "agent"
    /\ result.agents[1].agentName = Str("A")


----------------------------------------------------------------------------
(* C13: the source is exactly one of the file path and the text: loading   *)
(* fails when the caller supplies neither and when the caller supplies     *)
(* both, whether loadYamlSafely is called directly or through              *)
(* createAgentsFromYaml.                                                   *)
Supplied(arg) == arg \notin {Undefined, Null}

C13_Claim_ExactlyOneSource ==
    (pc # "call" /\ Supplied(given.yamlFile) = Supplied(given.yamlString))
        => pc = "failed"

----------------------------------------------------------------------------
(* C14: loadYamlSafely returns a tree only if the tree is a map whose key  *)
(* agents holds a sequence of at least one element; a document that is     *)
(* empty, a scalar, a sequence, a map without agents, a map whose agents   *)
(* is not a sequence or is an empty sequence makes it fail, and the tree   *)
(* it returns is the one that was parsed.                                  *)
HasAgentsSequence(t) ==
    t.shape = "map" /\ t.agentsKind = "array" /\ Len(t.agents) >= 1

\* The call has read and parsed a text.
TextParsed ==
    /\ Truthy(yamlString) \/ (Truthy(yamlFile) /\ fileExists)
    /\ tree.shape # "malformed"

C14_OnlyTreesWithAgentsReturned ==
    /\ pc \in {"loaded", "loop"} => (HasAgentsSequence(config) /\ config = tree)
    /\ (pc # "call" /\ TextParsed /\ ~HasAgentsSequence(tree)) =>
          /\ pc = "failed"
          /\ config = NoConfig
          /\ err.class = "Error"
          /\ err.message # ""

C14_Witness ==
    /\ entry = "loadYamlSafely"
    /\ pc = "failed"
    /\ TextParsed
    /\ tree = Tree("map", "array", <<>>, NoSwarm)
    /\ err.message =
         "Error validating configuration: Invalid YAML: Must contain at least one agent configuration."


----------------------------------------------------------------------------
(* C15: validation puts a default in place of an absent key only: a valid  *)
(* value the node gives a key, a falsy one included, is the value of the   *)
(* validated configuration, and an absent key gets the documented default. *)
(* The same for autosave and return_json of a swarm node.                  *)
DocumentedDefaults ==
    [max_loops |-> Num(1),
     autosave |-> Bool(TRUE),
     dashboard |-> Bool(FALSE),
     verbose |-> Bool(FALSE),
     dynamic_temperature_enabled |-> Bool(FALSE),
     auto_generate_prompt |-> Bool(FALSE),
     artifacts_on |-> Bool(FALSE),
     user_name |-> Str("default_user"),
     retry_attempts |-> Num(3),
     context_length |-> Num(100000),
     return_json |-> Bool(FALSE)]

\* A value the documentation allows the key.
ValidFor(key, v) ==
    CASE key \in FlagKeys -> v.t = "boolean"
      [] key \in {"max_loops", "context_length"} -> v.t = "number" /\ v.n >= 1
      [] key = "retry_attempts" -> v.t = "number" /\ v.n >= 0
      [] OTHER -> v.t = "string" /\ Len(v.s) > 0

KeysOf(called) == IF called = "AgentConfig" THEN AgentKeys ELSE SwarmKeys

C15_Claim_DefaultsOnlyWhenAbsent ==
    (pc = "validated") =>
        \A key \in KeysOf(entry) \cap DOMAIN DocumentedDefaults :
            /\ node[key] = Undefined
                 => constructed.value[KeyField[key]] = DocumentedDefaults[key]
            /\ ValidFor(key, node[key])
                 => constructed.value[KeyField[key]] = node[key]

----------------------------------------------------------------------------
(* C16: the options an agent is constructed with have maxLoops >= 1,       *)
(* contextLength >= 1 and retryAttempts >= 0, whatever numbers the node    *)
(* gives max_loops, context_length and retry_attempts.                     *)
C16_Claim_CountsWithinRange ==
    (entry = "AgentConfig" /\ pc = "built") =>
        /\ agents[1].maxLoops.n >= 1
        /\ agents[1].contextLength.n >= 1
        /\ agents[1].retryAttempts.n >= 0


----------------------------------------------------------------------------
(* C17: agent names are required, non-empty and unique in a document: a    *)
(* document with an agent without a name, with an empty name, or with two  *)
(* agents of one name is rejected, and the agents the pipeline holds or    *)
(* returns are named, each by a name of its own.                           *)
Named(v) == v.t = "string" /\ Len(v.s) > 0

NamesInOrder(t) ==
    /\ \A k \in 1..Len(t.agents) : Named(t.agents[k].agent_name)
    /\ \A j, k \in 1..Len(t.agents) :
          j # k => t.agents[j].agent_name # t.agents[k].agent_name

C17_Claim_NamesRequiredAndUnique ==
    /\ (pc # "call" /\ ~NamesInOrder(tree)) => (pc = "failed" /\ agents = <<>>)
    /\ \A k \in 1..Len(result.agents) : Named(result.agents[k].agentName)
    /\ \A j, k \in 1..Len(result.agents) :
          j # k => result.agents[j].agentName # result.agents[k].agentName

----------------------------------------------------------------------------
(* C18: the model argument is an override: the agent built from a node     *)
(* without model_name runs on the caller's model, when the caller gave     *)
(* one, and the agent built from a node with model_name runs on a backend  *)
(* of that name.                                                           *)
C18_Claim_ModelArgumentOverrides ==
    \A k \in 1..Len(agents) :
        IF config.agents[k].model_name # Undefined
        THEN agents[k].llm.modelName = config.agents[k].model_name
        ELSE model # Null => agents[k].llm = model

----------------------------------------------------------------------------
(* C19: no backend handle leaks: every built agent has the one handle      *)
(* created for it, and after a call that failed no handle is left that     *)
(* was neither released nor handed back with a returned agent.             *)

\* The handles that were released: no statement of the pipeline or of the
\* retry wrapper releases one.
Released == {}

\* The handles the returned value owns.
Owned == {result.agents[k].llm : k \in 1..Len(result.agents)}

LiveHandles == {backends[k] : k \in 1..Len(backends)} \ Released

C19_Claim_NoLeakedHandles ==
    /\ \A k \in 1..Len(agents) : agents[k].llm = backends[k]
    /\ pc = "failed" => LiveHandles \ Owned = {}

----------------------------------------------------------------------------
(* C20: every fatal condition is reported as an error kind of its own: the *)
(* class of the error a failed call throws is not the class with which    *)
(* any other of the fatal conditions is reported.                          *)

\* The call read a text, from the argument or from the file.
SourceRead == Truthy(yamlString) \/ (Truthy(yamlFile) /\ fileExists)

\* The fatal condition a failed call met.
FatalCondition ==
    CASE config = NoConfig /\ ~SourceRead -> "source"
      [] config = NoConfig /\ tree.shape = "malformed" -> "syntax"
      [] config = NoConfig -> "structure"
      [] err.message \in {PromptMessage, SwarmTypeMessage} -> "validation"
      [] err = InvalidReturnTypeError -> "returnType"
      [] err = SwarmNotCreatedError -> "swarm"
      [] OTHER -> "imported"

\* The class each of them is reported with.
ReportedClass ==
    [source |-> loadYamlSafely(Null, Null, FALSE, NoConfig).error.class,
     syntax |-> loadYamlSafely(Null, Str("text"), FALSE,
                               Tree("malformed", "missing", <<>>, NoSwarm)).error.class,
     structure |-> loadYamlSafely(Null, Str("text"), FALSE,
                                  Tree("map", "missing", <<>>, NoSwarm)).error.class,
     validation |-> AgentConfig(RawAgent(Str("A"), Undefined, Undefined, Undefined)).error.class,
     returnType |-> InvalidReturnTypeError.class,
     swarm |-> SwarmNotCreatedError.class]

C20_Claim_DistinctErrorKinds ==
    (pc = "failed" /\ FatalCondition \in DOMAIN ReportedClass) =>
        \A other \in DOMAIN ReportedClass \ {FatalCondition} :
            err.class # ReportedClass[other]


----------------------------------------------------------------------------
(* C21: a call of the logger that throws never changes the outcome of the  *)
(* pipeline: the call does not fail with the logger's error, and no agent  *)
(* of the document is left unbuilt because of it.                          *)
C21_Claim_LoggerFailureHarmless ==
    /\ pc = "failed" => err # LoggerError
    /\ exc # LoggerError


----------------------------------------------------------------------------
(* C22: a concurrent or mixture dispatch over the agents the pipeline      *)
(* built returns the per-agent results in the order of those agents,       *)
(* whatever the order in which their runs ended.                           *)
PerAgentResults ==
    IF swarmRouter.swarmType.s = "ConcurrentWorkflow"
    THEN result.output
    ELSE result.output[1].parts

C22_ResultsInInputOrder ==
    (entry = "SwarmRouter.run" /\ pc = "done") =>
        /\ Len(PerAgentResults) = Len(agents)
        /\ \A k \in 1..Len(agents) :
              PerAgentResults[k].agent = agents[k].agentName

C22_Witness ==
    /\ entry = "SwarmRouter.run"
    /\ pc = "done"
    /\ Len(agents) = 3
    /\ completion = <<3, 1, 2>>
    /\ PerAgentResults[1].agent = Str("A")
    /\ PerAgentResults[3].agent = Str("C")


----------------------------------------------------------------------------
(* C23: once saveData has returned after a successful attempt, the user    *)
(* data is in the auto-save file and in the cache file, so that an         *)
(* OnboardingProcess constructed on the same paths loads it.               *)
SaveSucceeded ==
    /\ pc = "returned"
    /\ telemetry # <<>>
    /\ telemetry[Len(telemetry)].ok

Holds(file, data) == file.exists /\ file.parses /\ file.data = data

C23_Claim_SavedDataIsLoadedAgain ==
    (entry \in {"saveData", "askInput"} /\ SaveSucceeded) =>
        /\ Holds(files.auto, userData)
        /\ Holds(files.cache, userData)
        /\ loadExistingData(EmptyData, files).userData = userData

----------------------------------------------------------------------------
(* C27: saveData(n) ends, and without an error: it calls logAgentData at   *)
(* most n times and returns right after the first call that succeeds; it   *)
(* waits after each failed call, 1000 at first and twice as long each      *)
(* time; after n failed calls it returns with the failure logged last.     *)
FailedCalls == {i \in 1..Len(telemetry) : ~telemetry[i].ok}

SaveDataWithinBounds ==
    entry = "saveData" =>
        /\ err = NoError
        /\ (retryAttempts >= 0 => Len(telemetry) <= retryAttempts)
        /\ (retryAttempts < 0 => telemetry = <<>>)
        /\ \A i \in 1..Len(telemetry) - 1 : i \in FailedCalls
        /\ Len(waited) <= Cardinality(FailedCalls)
        /\ \A k \in 1..Len(waited) : waited[k] = 1000 * Pow2(k - 1)
        /\ pc = "returned" =>
              /\ Len(waited) = Cardinality(FailedCalls)
              /\ IF SaveSucceeded
                 THEN \A j \in 1..Len(log) : log[j].site # "saveData failed"
                 ELSE /\ Cardinality(FailedCalls) = (IF retryAttempts > 0 THEN retryAttempts ELSE 0)
                      /\ log # <<>>
                      /\ log[Len(log)] = Log("error", "saveData failed", ToString(retryAttempts))

C27_SaveDataEndsWithoutError ==
    /\ []SaveDataWithinBounds
    /\ (entry = "saveData") ~> (pc = "returned")

C27_Witness ==
    /\ entry = "saveData"
    /\ pc = "returned"
    /\ retryAttempts = 3
    /\ waited = <<1000, 2000, 4000>>
    /\ Len(telemetry) = 3
    /\ ~SaveSucceeded

----------------------------------------------------------------------------
(* C29: loadExistingData takes userData from the auto-save file when that  *)
(* file is there and parses, else from the cache file when that one is     *)
(* there and parses, else leaves it empty; it does not throw, and the data *)
(* is that of one file, whole.                                             *)
JustConstructed == pc \in {"ready", "ask"} /\ prompts = 0

C29_AutoSaveThenCache ==
    JustConstructed =>
        /\ err = NoError
        /\ userData =
              IF files.auto.exists /\ files.auto.parses THEN files.auto.data
              ELSE IF files.cache.exists /\ files.cache.parses THEN files.cache.data
              ELSE EmptyData

C29_Witness ==
    /\ JustConstructed
    /\ files.auto.exists
    /\ ~files.auto.parses
    /\ Holds(files.cache, [first_name |-> Str("bob"), email |-> Str("b@x")])
    /\ userData = [first_name |-> Str("bob"), email |-> Str("b@x")]

----------------------------------------------------------------------------
(* C30: askInput stores valid input only: a blank response changes nothing *)
(* and is asked again without a save; a response that is not blank is      *)
(* stored trimmed under its key and saveData is called once before the     *)
(* return; quit, in any case of its letters, exits with userData as it     *)
(* was.  The key written never maps to the empty string.                   *)
QuitSpellings == {"quit", "QUIT", "Quit"}

Blank(r) == \A i \in 1..Len(r) : SubSeq(r, i, i) \in {" ", "\t", "\n"}

Loaded ==
    IF files.auto.exists /\ files.auto.parses THEN files.auto.data
    ELSE IF files.cache.exists /\ files.cache.parses THEN files.cache.data
    ELSE EmptyData

C30_OnlyValidInputStored ==
    (entry = "askInput" /\ pc # "new") =>
        /\ saves <= 1
        /\ (saves = 0) = (pc \in {"ask", "exited"})
        /\ saves = 0 => (userData = Loaded /\ telemetry = <<>>)
        /\ (pc = "ask" /\ prompts > 0) => Blank(response)
        /\ (prompts > 0 /\ Blank(response)) => pc = "ask"
        /\ (prompts > 0 /\ response \in QuitSpellings) => pc = "exited"
        /\ pc = "exited" => response \in QuitSpellings
        /\ saves = 1 =>
              /\ ~Blank(response)
              /\ userData = [Loaded EXCEPT ![askKey] = Str(response)]
              /\ response \in {"ann", "bob", "quitter"}
        /\ userData[askKey] # Str("")

C30_Witness ==
    /\ entry = "askInput"
    /\ pc = "returned"
    /\ prompts = 2
    /\ saves = 1
    /\ askKey = "email"
    /\ response = "bob"
    /\ userData.email = Str("bob")


----------------------------------------------------------------------------
(* C24: the agents are constructed one after the other in document order:  *)
(* the backend of a node is created only when every node before it has     *)
(* its agent, retries included, so that at most one construction is under  *)
(* way, and the k-th backend and the k-th agent belong to the k-th node.   *)
Constructing == pc \in {"attempt", "catch", "backoff"}

C24_OneConstructionAtATime ==
    (entry = "createAgentsFromYaml" /\ pc \notin {"call"}) =>
        /\ Len(agents) <= Len(backends)
        /\ Len(backends) <= Len(agents) + 1
        /\ Constructing => (idx = Len(agents) + 1 /\ Len(backends) = idx)
        /\ pc = "loop" => (Len(agents) = idx - 1 /\ Len(backends) = idx - 1)
        /\ \A k \in 1..Len(backends) : backends[k].id = k
        /\ \A k \in 1..Len(agents) :
              /\ agents[k].llm = backends[k]
              /\ agents[k].agentName = config.agents[k].agent_name

C24_Witness ==
    /\ pc = "attempt"
    /\ idx = 2
    /\ Len(agents) = 1
    /\ Len(backends) = 2
    /\ attempt = 2
    /\ Len(waited) = 2

----------------------------------------------------------------------------
(* C25: a router is constructed at most once in a call, only for a         *)
(* document that declares swarm_architecture, only when every agent of     *)
(* the document is built, and with all of them: never with no agent.       *)
RouterReports ==
    Cardinality({j \in 1..Len(log) : log[j].level = "info" /\ log[j].site = "router"})

C25_RouterOnceOverAllAgents ==
    /\ RouterReports <= 1
    /\ swarmRouter.present = (RouterReports = 1)
    /\ swarmRouter.present =>
          /\ pc \in {"return", "done", "failed"}
          /\ config.swarm_architecture.present
          /\ swarmRouter.agents = agents
          /\ Len(agents) = Len(config.agents)
          /\ Len(swarmRouter.agents) >= 1
          /\ \A k \in 1..Len(config.agents) :
                swarmRouter.agents[k].agentName = config.agents[k].agent_name

C25_Witness ==
    /\ pc = "done"
    /\ swarmRouter.present
    /\ Len(swarmRouter.agents) = 2
    /\ swarmRouter.agents[2].agentName = Str("B")

----------------------------------------------------------------------------
(* C26: what a call returns is decided by returnType: "both" the pair of   *)
(* the router and the whole list of agents; "auto" the router when a swarm *)
(* is declared and what "agents" returns otherwise; "swarm" the router;    *)
(* "run_swarm" the output of the router run on the task of the swarm;      *)
(* "tasks" the list of tasks.                                              *)
C26_Claim_ArtifactByReturnType ==
    pc = "done" =>
        CASE returnType.s = "both" ->
               /\ result.kind = "pair"
               /\ result.router = swarmRouter
               /\ result.agents = agents
          [] returnType.s = "auto" ->
               IF config.swarm_architecture.present
               THEN result.kind = "router" /\ result.router = swarmRouter
               ELSE /\ result.kind = (IF Len(agents) = 1 THEN "agent" ELSE "agents")
                    /\ result.agents = agents
          [] returnType.s = "swarm" ->
               result.kind = "router" /\ result.router = swarmRouter
          [] returnType.s = "run_swarm" ->
               /\ result.kind = "output"
               /\ result.output = RouterRun(swarmRouter, config.swarm_architecture.task)
          [] returnType.s = "tasks" -> result.kind = "tasks"
          [] OTHER -> TRUE


----------------------------------------------------------------------------
(* C33: after any calls of create, edit and load the version numbers of    *)
(* the history are 1..n in order, so they are pairwise distinct and        *)
(* getVersion(k) is the k-th version recorded.                             *)
C33_Claim_VersionsNumbered ==
    \A k \in 1..Len(artifact.versions) :
        /\ artifact.versions[k].versionNumber = k
        /\ getVersion(artifact, k) = artifact.versions[k]

----------------------------------------------------------------------------
(* C34: once a call of create, edit or load has returned, the contents of  *)
(* the artifact are the content of the last version of the history; and a  *)
(* call of edit adds 1 to editCount, appends one version to the history    *)
(* and leaves the versions before it as they were.                         *)

\* The calls of create, edit and load that returned.
Recorded == {i \in 1..Len(calls) : calls[i].ok /\ calls[i].op # "save"}

ContentsAreLastVersion ==
    Recorded # {} =>
        /\ Len(artifact.versions) > 0
        /\ artifact.contents = artifact.versions[Len(artifact.versions)].content

EditAddsOneVersion ==
    calls' = Append(calls, [op |-> "edit", ok |-> TRUE]) =>
        /\ artifact'.editCount = artifact.editCount + 1
        /\ Len(artifact'.versions) = Len(artifact.versions) + 1
        /\ SubSeq(artifact'.versions, 1, Len(artifact.versions)) = artifact.versions

C34_ContentsFollowHistory ==
    []ContentsAreLastVersion /\ [][EditAddsOneVersion]_vars

\* A load of what was saved after an edit, with a second edit after it.
C34_Witness ==
    /\ Len(calls) = MaxCalls
    /\ \E i, j, k \in 1..Len(calls) :
          /\ i < j /\ j < k
          /\ calls[i] = [op |-> "edit", ok |-> TRUE]
          /\ calls[j] = [op |-> "load", ok |-> TRUE]
          /\ calls[k] = [op |-> "edit", ok |-> TRUE]
    /\ artifact.editCount = 1
    /\ Len(artifact.versions) >= 3


----------------------------------------------------------------------------
(* C31: _waitForRun in a call of run returns the run only when its status  *)
(* is completed, and once the run is in a status the API does not change   *)
(* any more (completed, failed, expired, cancelled) the call ends: it      *)
(* returns or throws, and does not go on polling.                          *)

\* The statuses of a run that the API does not change any more.
TerminalStatuses == {"completed", "failed", "cancelled", "expired"}

\* The call of run has returned or thrown.
Ended == pc \in {"returned", "thrown"}

ReturnsOnlyCompleted ==
    (entry = "run" /\ pc \in {"respond", "returned"}) => run.status = "completed"

C31_Claim_WaitEndsOnTerminalRun ==
    /\ []ReturnsOnlyCompleted
    /\ (entry = "run" /\ remote.status \in TerminalStatuses) ~> Ended

----------------------------------------------------------------------------
(* C32: what _handleToolCalls sends to submitToolOutputs holds exactly one *)
(* output for each tool call the run requires, with that call's id, also   *)
(* for a call of a function that was never registered.                     *)

IdsOf(required) == {required[i].id : i \in 1..Len(required)}

OutputIdsOf(outputs) == {outputs[i].toolCallId : i \in 1..Len(outputs)}

C32_Claim_OneOutputPerToolCall ==
    submissions > 0 =>
        /\ Len(toolOutputs) = Len(toolCalls)
        /\ OutputIdsOf(toolOutputs) = IdsOf(toolCalls)

====
